---------------------------- MODULE Spec2Model ----------------------------
(***************************************************************************)
(* Model of the scriptwriter backend (src-tauri): the project path         *)
(* sandbox and file commands of commands.rs, and the subprocess bridge to  *)
(* the Python worker of ml_bridge.rs.                                      *)
(*                                                                         *)
(* Strings are sequences of one-character strings.  A Path/PathBuf is the  *)
(* raw string it wraps, as in std::path; its components are computed from  *)
(* that string by the rules of the target platform.                        *)
(***************************************************************************)
EXTENDS Integers, Sequences, FiniteSets, TLC

VARIABLES
    platform,   \* target OS of the build: decides std::path's parsing rules
    base,       \* ProjectRow.base_path of the addressed project
    relative,   \* the client-supplied path string
    resolved,   \* result of resolve_project_path(base, relative)
    roundtrip,  \* result of to_relative_string(base, resolved path)
    pstep,      \* position of the path computation
    bInput,     \* ml_bridge: the text handed to the bridge function
    bEnv,       \* ml_bridge: what the call meets outside the program
    bCall,      \* ml_bridge: the call made, its result and its effects
    xch,        \* ml_bridge: a stdin-fed exchange with a worker, step by step
    rt,         \* the async runtime: the requests in flight and their threads
    session,    \* state.rs: AppState.session
    users,      \* the users table: email -> password the stored hash verifies
    projects,   \* the projects table: id -> row
    fs,         \* the file system: regular files (with content) and directories
    last,       \* the command that completed last: its result and effects
    imp         \* copy_project_asset calls in flight, per client task

pathVars == <<platform, base, relative, resolved, roundtrip, pstep>>
bridgeVars == <<bInput, bEnv, bCall, xch, rt>>
cmdVars == <<session, users, projects, fs, last, imp>>

vars == <<platform, base, relative, resolved, roundtrip, pstep,
          bInput, bEnv, bCall, xch, rt, session, users, projects, fs, last, imp>>

(***************************************************************************)
(* Bounds                                                                  *)
(***************************************************************************)
MaxPathLen == 4

PathChars == {" ", "/", "\\", ".", "a", ":"}

Strings(n) == UNION {[1..k -> PathChars] : k \in 0..n}

Platforms == {"unix", "windows"}

\* One project root per platform, as project_path builds it: absolute, no
\* trailing separator.
ProjectRoot(pf) ==
    IF pf = "windows" THEN <<"c", ":", "\\", "p">> ELSE <<"/", "p">>

(***************************************************************************)
(* Results: Ok(v) / Err(message).  The messages are the ones the code      *)
(* builds; the taxonomy names of the specification are sets of them.       *)
(***************************************************************************)
Ok(v) == [ok |-> TRUE, val |-> v]
Err(e) == [ok |-> FALSE, err |-> e]

\* error.rs: AppError.  A Message built by format! keeps the values it
\* interpolates: the exit status and the captured stderr text, each a set
\* that is empty when the message does not carry one.
WorkerMessage(text, status, stderr) ==
    [kind |-> "Message", text |-> text, status |-> status, stderr |-> stderr]
Message(text) == WorkerMessage(text, {}, {})
Unauthorized == [kind |-> "Unauthorized", text |-> "Unauthorized", status |-> {}, stderr |-> {}]
IoError(what) == [kind |-> "Io", text |-> what, status |-> {}, stderr |-> {}]
JsonError == [kind |-> "Json", text |-> "invalid JSON", status |-> {}, stderr |-> {}]
AnyhowError(what) == [kind |-> "Anyhow", text |-> what, status |-> {}, stderr |-> {}]

None == Err(Message("none"))

MsgEmptyPath == "File path cannot be empty"
MsgNotRelative == "File path must be relative to the project"
MsgUpwards == "File path cannot navigate upwards"
MsgEscapes == "Path escapes project directory"

\* The specification's error taxonomy, as the errors the code raises.
InvalidPath == {Message(MsgEmptyPath)}
PathEscape == {Message(MsgNotRelative), Message(MsgUpwards), Message(MsgEscapes)}

(***************************************************************************)
(* str::trim, str::trim_start_matches, str::replace                        *)
(***************************************************************************)
IsWhitespace(c) == c = " "

RECURSIVE trim_start(_)
trim_start(s) ==
    IF s # <<>> /\ IsWhitespace(Head(s)) THEN trim_start(Tail(s)) ELSE s

RECURSIVE trim_end(_)
trim_end(s) ==
    IF s # <<>> /\ IsWhitespace(s[Len(s)])
    THEN trim_end(SubSeq(s, 1, Len(s) - 1))
    ELSE s

trim(s) == trim_end(trim_start(s))

RECURSIVE trim_start_matches(_)
trim_start_matches(s) ==
    IF s # <<>> /\ Head(s) \in {"/", "\\"}
    THEN trim_start_matches(Tail(s))
    ELSE s

replace_backslash(s) == [i \in 1..Len(s) |-> IF s[i] = "\\" THEN "/" ELSE s[i]]

(***************************************************************************)
(* std::path on the target platform                                        *)
(***************************************************************************)
DriveLetters == {"a", "c"}

is_sep(c) == c = "/" \/ (platform = "windows" /\ c = "\\")

\* Only the disk prefix "X:" is parsed: every other Windows prefix starts
\* with a separator.
prefix_len(s) ==
    IF platform = "windows" /\ Len(s) >= 2 /\ s[1] \in DriveLetters /\ s[2] = ":"
    THEN 2
    ELSE 0

has_physical_root(s) ==
    LET k == prefix_len(s) IN Len(s) > k /\ is_sep(s[k + 1])

include_cur_dir(s) ==
    LET k == prefix_len(s) IN
    /\ ~has_physical_root(s)
    /\ Len(s) > k
    /\ s[k + 1] = "."
    /\ (Len(s) = k + 1 \/ is_sep(s[k + 2]))

RECURSIVE piece_end(_, _)
piece_end(s, i) ==
    IF i < Len(s) /\ ~is_sep(s[i + 1]) THEN piece_end(s, i + 1) ELSE i

RECURSIVE body_components(_, _)
body_components(s, i) ==
    IF i > Len(s) THEN <<>>
    ELSE IF is_sep(s[i]) THEN body_components(s, i + 1)
    ELSE LET j == piece_end(s, i)
             text == SubSeq(s, i, j)
         IN  IF text = <<".">>
             THEN body_components(s, j + 1)
             ELSE <<[kind |-> IF text = <<".", ".">> THEN "ParentDir" ELSE "Normal",
                     text |-> text, from |-> i, to |-> j]>>
                  \o body_components(s, j + 1)

\* Path::components: Prefix?, RootDir?, CurDir? (leading "." only), then
\* the body, where empty pieces and "." are skipped.
components(s) ==
    LET k == prefix_len(s)
        pre == IF k > 0
               THEN <<[kind |-> "Prefix", text |-> SubSeq(s, 1, k), from |-> 1, to |-> k]>>
               ELSE <<>>
        rootc == IF has_physical_root(s)
                 THEN <<[kind |-> "RootDir", text |-> <<>>, from |-> k + 1, to |-> k + 1]>>
                 ELSE <<>>
        cur == IF include_cur_dir(s)
               THEN <<[kind |-> "CurDir", text |-> <<".">>, from |-> k + 1, to |-> k + 1]>>
               ELSE <<>>
    IN  pre \o rootc \o cur \o body_components(s, k + 1)

component_eq(x, y) == x.kind = y.kind /\ x.text = y.text

is_absolute(s) ==
    IF platform = "windows"
    THEN prefix_len(s) > 0 /\ has_physical_root(s)
    ELSE s # <<>> /\ s[1] = "/"

\* PathBuf::push, as Path::join
join(b, p) ==
    LET need_sep == b # <<>> /\ ~is_sep(b[Len(b)])
                    /\ ~(prefix_len(b) > 0 /\ prefix_len(b) = Len(b))
        main_sep == IF platform = "windows" THEN <<"\\">> ELSE <<"/">>
    IN  IF is_absolute(p) \/ prefix_len(p) > 0 THEN p
        ELSE IF platform = "windows" /\ has_physical_root(p)
             THEN SubSeq(b, 1, prefix_len(b)) \o p
        ELSE IF need_sep THEN b \o main_sep \o p
        ELSE b \o p

\* Path::starts_with
starts_with(p, b) ==
    LET cp == components(p)
        cb == components(b)
    IN  /\ Len(cb) <= Len(cp)
        /\ \A i \in 1..Len(cb) : component_eq(cp[i], cb[i])

\* Path::strip_prefix: the slice of p left after b's components, without
\* the empty and "." pieces at either end (Components::as_path).
strip_prefix(p, b) ==
    LET cp == components(p)
        cb == components(b)
    IN  IF ~starts_with(p, b) THEN Err(Message("StripPrefixError"))
        ELSE IF Len(cp) = Len(cb) THEN Ok(<<>>)
        ELSE Ok(SubSeq(p, cp[Len(cb) + 1].from, cp[Len(cp)].to))

(***************************************************************************)
(* commands.rs: the path sandbox                                           *)
(***************************************************************************)
resolve_project_path_untrimmed(b, rel) ==
    LET normalized == trim_start_matches(rel)
    IN  IF rel = <<>> THEN Err(Message(MsgEmptyPath))
        ELSE IF is_absolute(normalized) THEN Err(Message(MsgNotRelative))
        ELSE IF \E i \in 1..Len(components(normalized)) :
                    components(normalized)[i].kind = "ParentDir"
             THEN Err(Message(MsgUpwards))
        ELSE Ok(join(b, normalized))

resolve_project_path(b, rel) ==
    LET trimmed == trim(rel)
        normalized == trim_start_matches(trimmed)
    IN  IF trimmed = <<>> THEN Err(Message(MsgEmptyPath))
        ELSE IF is_absolute(normalized) THEN Err(Message(MsgNotRelative))
        ELSE IF \E i \in 1..Len(components(normalized)) :
                    components(normalized)[i].kind = "ParentDir"
             THEN Err(Message(MsgUpwards))
        ELSE Ok(join(b, normalized))

to_relative_string(b, path) ==
    LET stripped == strip_prefix(path, b)
    IN  IF ~stripped.ok THEN Err(Message(MsgEscapes))
        ELSE Ok(replace_backslash(stripped.val))

(***************************************************************************)
(* ml_bridge.rs: the world a worker call meets                             *)
(*                                                                         *)
(* ml:       what locate_ml_root finds (environment variable, working      *)
(*           directory, which candidates hold the package directory)       *)
(* taskRuns: whether the spawn_blocking task ran to its end (else the      *)
(*           join handle yields a JoinError)                               *)
(* spawnOk:  whether Command::spawn starts the interpreter                 *)
(* pipeFits: whether the payload fits the pipe of a worker that does not   *)
(*           read its input (else write_all fails with a broken pipe)      *)
(* worker:   what the worker process does                                  *)
(***************************************************************************)
ExitCodes == {0, 1, 2}

\* A worker's standard output: not JSON at all, or a JSON document with the
\* given top-level keys (each holding a well-typed array).
Stdouts ==
    {[json |-> FALSE, keys |-> {}]}
        \cup {[json |-> TRUE, keys |-> k] : k \in SUBSET {"candidates", "models"}}

Stderrs == {<<>>, <<"b", "o", "o", "m">>}

Workers ==
    [consumes : BOOLEAN, exit : ExitCodes, stdout : Stdouts, stderr : Stderrs]

WorkerCandidates == <<<<"t", "a">>>>
WorkerModels == <<"model">>

EnvCandidate == [src |-> "env", up |-> 0]
CwdCandidate(i) == [src |-> "cwd", up |-> i]

\* The worker-root situations the bridge calls are run against.
BridgeMlEnvs ==
    { [override |-> FALSE, cwdOk |-> TRUE, cwdDepth |-> 2, pkg |-> {}, canonOk |-> TRUE],
      [override |-> TRUE, cwdOk |-> TRUE, cwdDepth |-> 2, pkg |-> {EnvCandidate}, canonOk |-> TRUE],
      [override |-> FALSE, cwdOk |-> TRUE, cwdDepth |-> 2, pkg |-> {CwdCandidate(1)}, canonOk |-> TRUE],
      [override |-> FALSE, cwdOk |-> TRUE, cwdDepth |-> 2, pkg |-> {CwdCandidate(0)}, canonOk |-> FALSE] }

BridgeEnvs ==
    [ml : BridgeMlEnvs, taskRuns : BOOLEAN, spawnOk : BOOLEAN, pipeFits : BOOLEAN,
     worker : Workers]

BridgeTexts == {<<>>, <<" ">>, <<"a">>, <<" ", "a", " ">>}

MsgNoToolkit == "Unable to locate ML toolkit. Set SCRIPTWRITER_ML_ROOT to your ml directory"
MsgCliExited == "Python CLI exited with status {}: {}"
MsgSttFailed == "Python STT failed: {}"
MsgTtsFailed == "Python TTS failed: {}"
MsgLlmFailed == "Python LLM failed: {}"

Min(S) == CHOOSE x \in S : \A y \in S : x <= y

\* A bridge function's outcome: its result and the effects it had, in order.
Outcome(res, fx) == [res |-> res, fx |-> fx]

(***************************************************************************)
(* ml_bridge.rs: worker root discovery                                     *)
(***************************************************************************)
SearchLevels == 5

ml_candidates(ml) ==
    LET n == IF ml.cwdDepth + 1 < SearchLevels THEN ml.cwdDepth + 1 ELSE SearchLevels
    IN  (IF ml.override THEN <<EnvCandidate>> ELSE <<>>)
            \o [i \in 1..n |-> CwdCandidate(i - 1)]

\* Path::canonicalize of a candidate that holds the package directory
canonicalize(c) == [canonical |-> c]

locate_ml_root(ml) ==
    IF ~ml.cwdOk THEN Err(IoError("current_dir"))
    ELSE LET cands == ml_candidates(ml)
             hits == {i \in 1..Len(cands) : cands[i] \in ml.pkg}
         IN  IF hits = {} THEN Err(Message(MsgNoToolkit))
             ELSE IF ~ml.canonOk THEN Err(AnyhowError("canonicalize"))
             ELSE Ok(canonicalize(cands[Min(hits)]))

(***************************************************************************)
(* ml_bridge.rs: the subprocess exchanges                                  *)
(***************************************************************************)
\* Stdin::write_all(text): nothing to write, a worker that reads its input
\* to the end, or a payload the pipe takes whole.
write_all_ok(text, env) == text = <<>> \/ env.worker.consumes \/ env.pipeFits

\* serde_json::from_slice::<Value>
parse_value(stdout) == IF stdout.json THEN Ok(stdout) ELSE Err(JsonError)

\* serde_json::from_slice::<PythonTransliteration>
parse_transliteration(stdout) ==
    IF stdout.json /\ "candidates" \in stdout.keys
    THEN Ok(WorkerCandidates)
    ELSE Err(JsonError)

parse_model_inventory_lenient(stdout) ==
    IF stdout.json
    THEN Ok(IF "models" \in stdout.keys THEN WorkerModels ELSE <<>>)
    ELSE Err(JsonError)

\* serde_json::from_slice::<PythonModelInventory>
parse_model_inventory(stdout) ==
    IF stdout.json /\ "models" \in stdout.keys
    THEN Ok(WorkerModels)
    ELSE Err(JsonError)

invoke_python_transliteration(text, env) ==
    LET ml_root == locate_ml_root(env.ml)
        w == env.worker
    IN  IF ~ml_root.ok THEN Outcome(ml_root, <<"locate_ml_root">>)
        ELSE IF ~env.spawnOk
             THEN Outcome(Err(AnyhowError("spawn")), <<"locate_ml_root", "spawn_failed">>)
        ELSE IF ~write_all_ok(text, env)
             THEN Outcome(Err(IoError("write_all")),
                          <<"locate_ml_root", "spawn", "write_stdin">>)
        ELSE IF w.exit # 0
             THEN Outcome(Err(WorkerMessage(MsgCliExited, {w.exit}, {w.stderr})),
                          <<"locate_ml_root", "spawn", "write_stdin", "wait">>)
        ELSE Outcome(parse_transliteration(w.stdout),
                     <<"locate_ml_root", "spawn", "write_stdin", "wait">>)

python_model_inventory(models_root, env) ==
    LET ml_root == locate_ml_root(env.ml)
        w == env.worker
    IN  IF ~ml_root.ok THEN Outcome(ml_root, <<"locate_ml_root">>)
        ELSE IF ~env.spawnOk
             THEN Outcome(Err(IoError("spawn")), <<"locate_ml_root", "spawn_failed">>)
        ELSE IF w.exit # 0
             THEN Outcome(Err(WorkerMessage(MsgCliExited, {w.exit}, {w.stderr})),
                          <<"locate_ml_root", "spawn", "wait">>)
        ELSE Outcome(parse_model_inventory(w.stdout), <<"locate_ml_root", "spawn", "wait">>)

invoke_python_stt_file(audio_path, language, env) ==
    LET ml_root == locate_ml_root(env.ml)
        w == env.worker
    IN  IF ~ml_root.ok THEN Outcome(ml_root, <<"locate_ml_root">>)
        ELSE IF ~env.spawnOk
             THEN Outcome(Err(AnyhowError("spawn")), <<"locate_ml_root", "spawn_failed">>)
        ELSE IF w.exit # 0
             THEN Outcome(Err(WorkerMessage(MsgSttFailed, {}, {w.stderr})),
                          <<"locate_ml_root", "spawn", "wait">>)
        ELSE Outcome(parse_value(w.stdout), <<"locate_ml_root", "spawn", "wait">>)

invoke_python_stt_mic(duration, language, env) ==
    LET ml_root == locate_ml_root(env.ml)
        w == env.worker
    IN  IF ~ml_root.ok THEN Outcome(ml_root, <<"locate_ml_root">>)
        ELSE IF ~env.spawnOk
             THEN Outcome(Err(AnyhowError("spawn")), <<"locate_ml_root", "spawn_failed">>)
        ELSE IF w.exit # 0
             THEN Outcome(Err(WorkerMessage(MsgSttFailed, {}, {w.stderr})),
                          <<"locate_ml_root", "spawn", "wait">>)
        ELSE Outcome(parse_value(w.stdout), <<"locate_ml_root", "spawn", "wait">>)

invoke_python_tts(text, output_path, env) ==
    LET ml_root == locate_ml_root(env.ml)
        w == env.worker
    IN  IF ~ml_root.ok THEN Outcome(ml_root, <<"locate_ml_root">>)
        ELSE IF ~env.spawnOk
             THEN Outcome(Err(AnyhowError("spawn")), <<"locate_ml_root", "spawn_failed">>)
        ELSE IF ~write_all_ok(text, env)
             THEN Outcome(Err(IoError("write_all")),
                          <<"locate_ml_root", "spawn", "write_stdin">>)
        ELSE IF w.exit # 0
             THEN Outcome(Err(WorkerMessage(MsgTtsFailed, {}, {w.stderr})),
                          <<"locate_ml_root", "spawn", "write_stdin", "wait">>)
        ELSE Outcome(parse_value(w.stdout),
                     <<"locate_ml_root", "spawn", "write_stdin", "wait">>)

RECURSIVE escape_quotes(_)
RECURSIVE json_escape(_)
\* str::replace("\"", "\\\"")
escape_quotes(s) ==
    IF s = <<>> THEN <<>>
    ELSE (IF s[1] = "\"" THEN <<"\\", "\"">> ELSE <<s[1]>>)
            \o escape_quotes(SubSeq(s, 2, Len(s)))

\* serde_json::to_string of a string: quoted, with quotes and backslashes
\* escaped
json_escape(s) ==
    IF s = <<>> THEN <<>>
    ELSE (IF s[1] \in {"\"", "\\"} THEN <<"\\", s[1]>> ELSE <<s[1]>>)
            \o json_escape(SubSeq(s, 2, Len(s)))

json_string(s) == <<"\"">> \o json_escape(s) \o <<"\"">>

\* The program text of invoke_python_llm: the format! template with its
\* four holes filled; each fixed stretch of the template is one element.
python_script(prompt, context, api_key) ==
    LET api_key_str == IF api_key.ok THEN api_key.val ELSE <<>>
    IN  <<"import json; import os; from scriptwriter_ml.llm import draft_scene; if \"">>
            \o escape_quotes(api_key_str)
            \o <<"\": os.environ[\"OPENROUTER_API_KEY\"] = \"">>
            \o escape_quotes(api_key_str)
            \o <<"\"; result = draft_scene(prompt=">>
            \o json_string(prompt)
            \o <<", context=">>
            \o json_string(context)
            \o <<"); print(json.dumps({...}, ensure_ascii=False))">>

\* Command::new(python).arg("-c").arg(&python_script)
llm_command(prompt, context, api_key) ==
    <<<<"python3">>, <<"-c">>, python_script(prompt, context, api_key)>>

invoke_python_llm(prompt, context, api_key, env) ==
    LET ml_root == locate_ml_root(env.ml)
        w == env.worker
    IN  IF ~ml_root.ok THEN Outcome(ml_root, <<"locate_ml_root">>)
        ELSE IF ~env.spawnOk
             THEN Outcome(Err(AnyhowError("spawn")), <<"locate_ml_root", "spawn_failed">>)
        ELSE IF w.exit # 0
             THEN Outcome(Err(WorkerMessage(MsgLlmFailed, {}, {w.stderr})),
                          <<"locate_ml_root", "spawn", "wait">>)
        ELSE Outcome(parse_value(w.stdout), <<"locate_ml_root", "spawn", "wait">>)

fallback_transliteration_trimmed(text) == <<trim(text)>>

fallback_transliteration(text) == <<text>>

transliterate_without_trim(input, env) ==
    IF input = <<>> THEN Outcome(Ok(<<>>), <<>>)
    ELSE IF ~env.taskRuns
         THEN Outcome(Ok(fallback_transliteration(input)), <<>>)
    ELSE LET r == invoke_python_transliteration(input, env)
         IN  IF r.res.ok THEN r
             ELSE Outcome(Ok(fallback_transliteration(input)), r.fx)

\* The async wrappers: the blocking function runs in spawn_blocking; a
\* JoinError means it did not run to its end.
transliterate_english_to_tamil(input, env) ==
    IF trim(input) = <<>> THEN Outcome(Ok(<<>>), <<>>)
    ELSE IF ~env.taskRuns
         THEN Outcome(Ok(fallback_transliteration(input)), <<>>)
    ELSE LET r == invoke_python_transliteration(input, env)
         IN  IF r.res.ok THEN r
             ELSE Outcome(Ok(fallback_transliteration(input)), r.fx)

join_blocking(r, env) ==
    IF ~env.taskRuns THEN Outcome(Err(AnyhowError("join")), <<>>) ELSE r

transcribe_audio_file(audio_path, language, env) ==
    join_blocking(invoke_python_stt_file(audio_path, language, env), env)

record_and_transcribe(duration, language, env) ==
    join_blocking(invoke_python_stt_mic(duration, language, env), env)

synthesize_speech(text, output_path, env) ==
    join_blocking(invoke_python_tts(text, output_path, env), env)

generate_scene_ai(prompt, context, api_key, env) ==
    join_blocking(invoke_python_llm(prompt, context, api_key, env), env)

fetch_model_inventory(models_root, env) ==
    join_blocking(python_model_inventory(models_root, env), env)

(***************************************************************************)
(* SpecPath: the sandbox functions applied to every bounded input          *)
(***************************************************************************)
BridgeIdle == [op |-> "idle"]

PathUnused ==
    /\ platform = "unix"
    /\ base = ProjectRoot("unix")
    /\ relative = <<>>
    /\ resolved = None
    /\ roundtrip = None
    /\ pstep = "unused"

BridgeUnused ==
    /\ bInput = <<>>
    /\ bEnv = CHOOSE e \in BridgeEnvs : TRUE
    /\ bCall = [op |-> "unused"]
    /\ xch = <<>>
    /\ rt = <<>>

CmdUnused ==
    /\ session = [present |-> FALSE]
    /\ users = <<>>
    /\ projects = <<>>
    /\ fs = [files |-> <<>>, dirs |-> {}, links |-> <<>>]
    /\ last = [op |-> "unused"]
    /\ imp = <<>>

InitPath ==
    /\ BridgeUnused
    /\ CmdUnused
    /\ platform \in Platforms
    /\ base = ProjectRoot(platform)
    /\ relative \in Strings(MaxPathLen)
    /\ resolved = None
    /\ roundtrip = None
    /\ pstep = "input"

Resolve ==
    /\ pstep = "input"
    /\ resolved' = resolve_project_path(base, relative)
    /\ pstep' = "resolved"
    /\ UNCHANGED <<platform, base, relative, roundtrip, bridgeVars, cmdVars>>

ToRelative ==
    /\ pstep = "resolved"
    /\ resolved.ok
    /\ roundtrip' = to_relative_string(base, resolved.val)
    /\ pstep' = "relative"
    /\ UNCHANGED <<platform, base, relative, resolved, bridgeVars, cmdVars>>

NextPath == Resolve \/ ToRelative

SpecPath == InitPath /\ [][NextPath]_vars


(***************************************************************************)
(* SpecBridge: each bridge function called once in every modelled world    *)
(***************************************************************************)
InitBridge ==
    /\ PathUnused
    /\ CmdUnused
    /\ bInput \in BridgeTexts
    /\ bEnv \in BridgeEnvs
    /\ bCall = BridgeIdle
    /\ xch = <<>>
    /\ rt = <<>>

Called(op, out) ==
    /\ bCall = BridgeIdle
    /\ bCall' = [op |-> op, res |-> out.res, fx |-> out.fx]
    /\ UNCHANGED <<pathVars, bInput, bEnv, xch, rt, cmdVars>>

Transliterate == Called("transliterate", transliterate_english_to_tamil(bInput, bEnv))

TranscribeFile == Called("transcribe_file", transcribe_audio_file("audio.wav", "en-IN", bEnv))

RecordMic == Called("transcribe_mic", record_and_transcribe(5, "en-IN", bEnv))

Synthesize == Called("synthesize", synthesize_speech(bInput, "none", bEnv))

GenerateScene == Called("generate_scene", generate_scene_ai(bInput, <<>>, "none", bEnv))

FetchInventory == Called("model_inventory", fetch_model_inventory("models", bEnv))

NextBridge ==
    \/ Transliterate
    \/ TranscribeFile
    \/ RecordMic
    \/ Synthesize
    \/ GenerateScene
    \/ FetchInventory

SpecBridge == InitBridge /\ [][NextBridge]_vars

(***************************************************************************)
(* The stdin-fed exchange of invoke_python_transliteration and             *)
(* invoke_python_tts, step by step: the bridge's write_all and             *)
(* wait_with_output on one side, a worker on the other, two pipes of       *)
(* bounded capacity between them.  The worker reads its input to the end   *)
(* and exits; it writes `early` units of its output before it reads        *)
(* anything and the rest after the end of its input.  (One output pipe     *)
(* stands for stdout and stderr alike: both are read by wait_with_output   *)
(* only.)                                                                  *)
(***************************************************************************)
PipeCap == 1
MaxPayload == 3
MaxOutput == 3

InitPipe ==
    /\ PathUnused
    /\ CmdUnused
    /\ bInput = <<>>
    /\ bEnv = CHOOSE e \in BridgeEnvs : TRUE
    /\ bCall = BridgeIdle
    /\ rt = <<>>
    /\ \E payload \in 0..MaxPayload, output \in 0..MaxOutput :
        \E early \in 0..output :
            xch = [pc |-> "write_all", left |-> payload, stdin |-> 0,
                   stdin_open |-> TRUE, stdout |-> 0, got |-> 0,
                   early |-> early, late |-> output - early,
                   at_eof |-> FALSE, exited |-> FALSE]

Exchanged(next) ==
    /\ xch' = next
    /\ UNCHANGED <<pathVars, bInput, bEnv, bCall, rt, cmdVars>>

\* stdin.write_all(text.as_bytes()): one more unit into the pipe, when the
\* pipe has room
BridgeWrite ==
    /\ xch.pc = "write_all"
    /\ xch.left > 0
    /\ xch.stdin < PipeCap
    /\ Exchanged([xch EXCEPT !.left = @ - 1, !.stdin = @ + 1])

\* write_all has returned; wait_with_output begins by dropping stdin
BridgeClose ==
    /\ xch.pc = "write_all"
    /\ xch.left = 0
    /\ Exchanged([xch EXCEPT !.pc = "wait_with_output", !.stdin_open = FALSE])

\* wait_with_output: read what the worker has written
BridgeRead ==
    /\ xch.pc = "wait_with_output"
    /\ xch.stdout > 0
    /\ Exchanged([xch EXCEPT !.stdout = @ - 1, !.got = @ + 1])

\* wait_with_output: the output is at its end and the worker has exited
BridgeReturn ==
    /\ xch.pc = "wait_with_output"
    /\ xch.stdout = 0
    /\ xch.exited
    /\ Exchanged([xch EXCEPT !.pc = "returned"])

WorkerWriteEarly ==
    /\ ~xch.exited
    /\ xch.early > 0
    /\ xch.stdout < PipeCap
    /\ Exchanged([xch EXCEPT !.early = @ - 1, !.stdout = @ + 1])

WorkerRead ==
    /\ ~xch.exited
    /\ xch.early = 0
    /\ xch.stdin > 0
    /\ Exchanged([xch EXCEPT !.stdin = @ - 1])

WorkerEof ==
    /\ ~xch.exited
    /\ xch.early = 0
    /\ ~xch.at_eof
    /\ xch.stdin = 0
    /\ ~xch.stdin_open
    /\ Exchanged([xch EXCEPT !.at_eof = TRUE])

WorkerWriteLate ==
    /\ ~xch.exited
    /\ xch.at_eof
    /\ xch.late > 0
    /\ xch.stdout < PipeCap
    /\ Exchanged([xch EXCEPT !.late = @ - 1, !.stdout = @ + 1])

WorkerExit ==
    /\ ~xch.exited
    /\ xch.at_eof
    /\ xch.late = 0
    /\ Exchanged([xch EXCEPT !.exited = TRUE])

NextPipe ==
    \/ BridgeWrite
    \/ BridgeClose
    \/ BridgeRead
    \/ BridgeReturn
    \/ WorkerWriteEarly
    \/ WorkerRead
    \/ WorkerEof
    \/ WorkerWriteLate
    \/ WorkerExit

\* Both processes run whenever they can
SpecPipe == InitPipe /\ [][NextPipe]_vars /\ WF_vars(NextPipe)

(***************************************************************************)
(* Scene generation over drawn requests: what the interpreter is started   *)
(* with.                                                                   *)
(***************************************************************************)
ScenePrompts == {<<>>, <<"a">>, <<"a", "\"">>, <<"\\">>}
SceneContexts == {<<>>, <<"c">>, <<"\"">>}
SceneKeys == {None, Ok(<<"s">>), Ok(<<"\"", ":">>)}

InitScene ==
    /\ PathUnused
    /\ CmdUnused
    /\ bInput \in [prompt : ScenePrompts, context : SceneContexts, api_key : SceneKeys]
    /\ \E ml \in BridgeMlEnvs :
        bEnv = [ml |-> ml, taskRuns |-> TRUE, spawnOk |-> TRUE, pipeFits |-> TRUE,
                worker |-> [consumes |-> TRUE, exit |-> 0,
                            stdout |-> [json |-> TRUE, keys |-> {}],
                            stderr |-> <<>>]]
    /\ bCall = BridgeIdle
    /\ xch = <<>>
    /\ rt = <<>>

\* generate_scene_ai, with the command line its worker was started with
SceneCalled ==
    \E out \in {generate_scene_ai(bInput.prompt, bInput.context, bInput.api_key, bEnv)} :
        /\ bCall = BridgeIdle
        /\ bCall' = [op |-> "generate_scene", res |-> out.res, fx |-> out.fx,
                     command |-> IF \E i \in DOMAIN out.fx : out.fx[i] = "spawn"
                                 THEN Ok(llm_command(bInput.prompt, bInput.context,
                                                     bInput.api_key))
                                 ELSE None]
        /\ UNCHANGED <<pathVars, bInput, bEnv, xch, rt, cmdVars>>

NextScene == SceneCalled

SpecScene == InitScene /\ [][NextScene]_vars

(***************************************************************************)
(* Worker root discovery over drawn surroundings: the override set or not, *)
(* the working directory readable or not and at several depths, the        *)
(* package directory under any of the candidates.                          *)
(***************************************************************************)
MaxCwdDepth == 6

LocateHolders ==
    {EnvCandidate, CwdCandidate(0), CwdCandidate(1), CwdCandidate(SearchLevels - 1),
     CwdCandidate(SearchLevels)}

LocateMlEnvs ==
    [override : BOOLEAN, cwdOk : BOOLEAN, cwdDepth : 0..MaxCwdDepth,
     pkg : SUBSET LocateHolders, canonOk : BOOLEAN]

InitLocate ==
    /\ PathUnused
    /\ CmdUnused
    /\ bInput = <<>>
    /\ \E ml \in LocateMlEnvs :
        bEnv = [ml |-> ml, taskRuns |-> TRUE, spawnOk |-> TRUE, pipeFits |-> TRUE,
                worker |-> [consumes |-> TRUE, exit |-> 0,
                            stdout |-> [json |-> TRUE, keys |-> {"candidates", "models"}],
                            stderr |-> <<>>]]
    /\ bCall = BridgeIdle
    /\ xch = <<>>
    /\ rt = <<>>

Locate == Called("locate_ml_root", Outcome(locate_ml_root(bEnv.ml), <<>>))

NextLocate ==
    \/ Locate
    \/ FetchInventory

SpecLocate == InitLocate /\ [][NextLocate]_vars

(***************************************************************************)
(* The application behind its commands: session, tables and file system    *)
(***************************************************************************)
\* The({e(x) : x \in {v}}) is e(x) with x standing for the value of v
The(S) == CHOOSE x \in S : TRUE

\* state.rs: the session slot of AppState
NoSession == [present |-> FALSE]
SomeUser(profile) == [present |-> TRUE, profile |-> profile]

current_user == session

\* commands.rs: a command returns Result<_, String>: err.to_string()
to_string(e) == [text |-> e.text, status |-> e.status, stderr |-> e.stderr]

require_session_open == Ok([email |-> <<>>])

require_session ==
    IF current_user.present THEN Ok(current_user.profile) ELSE Err(Unauthorized)

MsgProjectNotFound == "Project not found"
MsgNoSource == "Selected file does not exist"
MsgInvalidSource == "Invalid source file"

fetch_project_row(project_id) ==
    IF project_id \in DOMAIN projects THEN Ok(projects[project_id])
    ELSE Err(Message(MsgProjectNotFound))

\* An effect of a command and the place it touched (<<>>: no place)
Fx(e, at) == [e |-> e, at |-> at]
Lift(fx) == [i \in 1..Len(fx) |-> Fx(fx[i], <<>>)]
FxRow == <<Fx("fetch_project_row", <<>>)>>

\* What a command leaves behind: its result, its effects in order, the file
\* system and the projects table after it.
Done(res, fx, f, pr) == [res |-> res, fx |-> fx, fs |-> f, projects |-> pr]

Refused(auth) == Done(Err(to_string(auth.err)), <<>>, fs, projects)

(***************************************************************************)
(* std::fs over a tree of directories, regular files and symbolic links.   *)
(* An entry is named by the texts of its path's components; a link holds   *)
(* the name of the entry it points to.                                     *)
(***************************************************************************)
fs_key(p) == The({[i \in 1..Len(c) |-> c[i].text] : c \in {components(p)}})

Prefixes(k) == {SubSeq(k, 1, n) : n \in 1..Len(k)}

\* Path::parent: the path without its final component, if it has one
parent(p) ==
    The({IF c = <<>> \/ c[Len(c)].kind \in {"RootDir", "Prefix"} THEN None
         ELSE IF Len(c) = 1 THEN Ok(<<>>)
         ELSE Ok(SubSeq(p, 1, c[Len(c) - 1].to))
         : c \in {components(p)}})

\* Path::file_name: the final component, if it is a normal one
file_name(p) ==
    The({IF c # <<>> /\ c[Len(c)].kind = "Normal" THEN Ok(c[Len(c)].text) ELSE None
         : c \in {components(p)}})

\* Path::exists follows a link: a link whose target is missing, or is the
\* link itself, does not exist.
exists(f, p) ==
    The({\/ k \in (DOMAIN f.files) \cup f.dirs
         \/ k \in DOMAIN f.links /\ f.links[k] \in (DOMAIN f.files) \cup f.dirs
         : k \in {fs_key(p)}})

create_dir_all(f, p) ==
    The({IF \E q \in Prefixes(k) : q \in DOMAIN f.files
         THEN Err(IoError("create_dir_all"))
         ELSE Ok([f EXCEPT !.dirs = @ \cup Prefixes(k)])
         : k \in {fs_key(p)}})

\* A write that reports success and stores nothing
write_dropping(f, p, content) == Ok(f)

\* fs::write: creates the file or replaces its content
write(f, p, content) ==
    The({IF k = <<>> \/ k \in f.dirs \/ SubSeq(k, 1, Len(k) - 1) \notin f.dirs
         THEN Err(IoError("write"))
         ELSE Ok([f EXCEPT !.files = (k :> content) @@ @])
         : k \in {fs_key(p)}})

read_to_string(f, p) ==
    The({IF k \in DOMAIN f.files THEN Ok(f.files[k]) ELSE Err(IoError("read_to_string"))
         : k \in {fs_key(p)}})

\* fs::copy: the target is created or overwritten with the source's content
copy(f, from, to) ==
    The({IF k \notin DOMAIN f.files THEN Err(IoError("copy"))
         ELSE write(f, to, f.files[k])
         : k \in {fs_key(from)}})

\* UPDATE projects SET updated_at = datetime('now') WHERE id = ?1
MaxUpdates == 1

touch_project(pr, project_id) ==
    [pr EXCEPT ![project_id].updated_at = @ + 1]

(***************************************************************************)
(* commands.rs: load and save                                              *)
(***************************************************************************)
load_markdown_file(payload) ==
    IF ~require_session.ok THEN Refused(require_session) ELSE
    The({
      IF ~row.ok THEN Done(Err(to_string(row.err)), FxRow, fs, projects) ELSE
      The({
        IF ~target_path.ok
        THEN Done(Err(to_string(target_path.err)), FxRow, fs, projects) ELSE
        The({
          IF ~exists(fs, target_path.val)
          THEN Done(Ok(<<>>), FxRow \o <<Fx("exists", at)>>, fs, projects) ELSE
          The({
            Done(IF content.ok THEN content ELSE Err(to_string(content.err)),
                 FxRow \o <<Fx("exists", at), Fx("read", at)>>, fs, projects)
            : content \in {read_to_string(fs, target_path.val)}})
          : at \in {fs_key(target_path.val)}})
        : target_path \in {resolve_project_path(row.val.base_path, payload.file_path)}})
      : row \in {fetch_project_row(payload.project_id)}})

\* save_markdown_file from fs::write on, the parent directories made
save_written(payload, base_path, target_path, made, fx) ==
    The({
      IF ~written.ok
      THEN Done(Err(to_string(written.err)),
                fx \o <<Fx("write", fs_key(target_path))>>, made, projects) ELSE
      The({
        Done(IF relative_path.ok THEN relative_path
             ELSE Err(to_string(relative_path.err)),
             fx \o <<Fx("write", fs_key(target_path)), Fx("update_project", <<>>)>>,
             written.val, touch_project(projects, payload.project_id))
        : relative_path \in {to_relative_string(base_path, target_path)}})
      : written \in {write(made, target_path, payload.content)}})

save_markdown_file(payload) ==
    IF ~require_session.ok THEN Refused(require_session) ELSE
    The({
      IF ~row.ok THEN Done(Err(to_string(row.err)), FxRow, fs, projects) ELSE
      The({
        IF ~target_path.ok
        THEN Done(Err(to_string(target_path.err)), FxRow, fs, projects) ELSE
        The({
          IF ~dir.ok
          THEN save_written(payload, row.val.base_path, target_path.val, fs, FxRow) ELSE
          The({
            IF ~made.ok
            THEN Done(Err(to_string(made.err)),
                      FxRow \o <<Fx("create_dir_all", fs_key(dir.val))>>, fs, projects)
            ELSE save_written(payload, row.val.base_path, target_path.val, made.val,
                              FxRow \o <<Fx("create_dir_all", fs_key(dir.val))>>)
            : made \in {create_dir_all(fs, dir.val)}})
          : dir \in {parent(target_path.val)}})
        : target_path \in {resolve_project_path(row.val.base_path, payload.file_path)}})
      : row \in {fetch_project_row(payload.project_id)}})

(***************************************************************************)
(* commands.rs: copy_project_asset                                         *)
(***************************************************************************)
\* sanitize_filename::sanitize with its default options: the illegal
\* characters are removed, a name made of dots only becomes empty, and on
\* Windows trailing dots and spaces are cut.  (Control characters, the
\* reserved device names and names over 255 bytes do not occur here.)
IllegalChars == {"/", "?", "<", ">", "\\", ":", "*", "|", "\""}

RECURSIVE trim_trailing(_)
trim_trailing(s) ==
    IF s # <<>> /\ s[Len(s)] \in {".", " "} THEN trim_trailing(SubSeq(s, 1, Len(s) - 1))
    ELSE s

sanitize(name) ==
    The({IF legal # <<>> /\ \A i \in 1..Len(legal) : legal[i] = "." THEN <<>>
         ELSE IF platform = "windows" THEN trim_trailing(legal)
         ELSE legal
         : legal \in {SelectSeq(name, LAMBDA c : c \notin IllegalChars)}})

\* Path::file_stem and Path::extension: split at the last dot, unless the
\* name has none or only begins with one.
last_dot(name) ==
    IF \E i \in 1..Len(name) : name[i] = "."
    THEN CHOOSE i \in 1..Len(name) :
            name[i] = "." /\ \A j \in (i + 1)..Len(name) : name[j] # "."
    ELSE 0

file_stem(name) ==
    IF name = <<".", ".">> \/ last_dot(name) <= 1 THEN name
    ELSE SubSeq(name, 1, last_dot(name) - 1)

extension(name) ==
    IF name = <<".", ".">> \/ last_dot(name) <= 1 THEN None
    ELSE Ok(SubSeq(name, last_dot(name) + 1, Len(name)))

Digits == <<"0", "1", "2", "3", "4", "5", "6", "7", "8", "9">>

\* format!("{}", counter)
RECURSIVE to_decimal(_)
to_decimal(n) ==
    IF n < 10 THEN <<Digits[n + 1]>>
    ELSE to_decimal(n \div 10) \o <<Digits[(n % 10) + 1]>>

DefaultTargetDir == <<"a", "s", "s", "e", "t", "s", "/", "i", "m", "a", "g", "e", "s">>
UnnamedAsset == <<"f", "i", "l", "e">>
DefaultAssetName == <<"a", "s", "s", "e", "t">>

\* The probing loop: the candidates tried, in order; the last one is the
\* first that names no entry.
RECURSIVE probe(_, _, _, _, _)
probe(f, target_dir, stem, ext, counter) ==
    The({IF ~exists(f, candidate) THEN <<candidate>>
         ELSE <<candidate>> \o probe(f, target_dir, stem, ext, counter + 1)
         : candidate \in
            {join(target_dir,
                  IF ext.ok
                  THEN stem \o <<"-">> \o to_decimal(counter) \o <<".">> \o ext.val
                  ELSE stem \o <<"-">> \o to_decimal(counter))}})

Finished(out) == [pending |-> FALSE, out |-> out]

\* !source_path.exists()
source_unchecked(f, source) == FALSE

source_missing(f, source) == ~exists(f, source)

\* The candidates when the probing loop counts from 0
candidates_from_zero(f, target_dir, sanitized) ==
    The({IF exists(f, first)
         THEN <<first>> \o probe(f, target_dir, file_stem(sanitized),
                                 extension(sanitized), 0)
         ELSE <<first>>
         : first \in {join(target_dir, sanitized)}})

\* The candidates copy_project_asset tries for a sanitized name
candidates(f, target_dir, sanitized) ==
    The({IF exists(f, first)
         THEN <<first>> \o probe(f, target_dir, file_stem(sanitized),
                                 extension(sanitized), 1)
         ELSE <<first>>
         : first \in {join(target_dir, sanitized)}})

\* The command up to the end of the probing loop: it either has returned,
\* or holds the candidate it is about to copy to.
copy_begin(payload) ==
    IF ~require_session.ok THEN Finished(Refused(require_session)) ELSE
    The({
      IF ~row.ok THEN Finished(Done(Err(to_string(row.err)), FxRow, fs, projects)) ELSE
      The({
        IF source_missing(fs, payload.source)
        THEN Finished(Done(Err(to_string(Message(MsgNoSource))), fx2, fs, projects)) ELSE
        The({
          IF ~target_dir.ok
          THEN Finished(Done(Err(to_string(target_dir.err)), fx2, fs, projects)) ELSE
          The({
            IF ~made.ok
            THEN Finished(Done(Err(to_string(made.err)),
                               fx2 \o <<Fx("create_dir_all", fs_key(target_dir.val))>>,
                               fs, projects)) ELSE
            The({
              IF ~original_name.ok
              THEN Finished(Done(Err(to_string(Message(MsgInvalidSource))),
                                 fx2 \o <<Fx("create_dir_all", fs_key(target_dir.val))>>,
                                 made.val, projects)) ELSE
              The({
                The({
                  [pending |-> TRUE,
                   project_id |-> payload.project_id,
                   base_path |-> row.val.base_path,
                   source |-> payload.source,
                   candidate |-> tried[Len(tried)],
                   fs |-> made.val,
                   fx |-> fx2 \o <<Fx("create_dir_all", fs_key(target_dir.val))>>
                            \o [i \in 1..Len(tried) |-> Fx("exists", fs_key(tried[i]))]]
                  : tried \in {candidates(made.val, target_dir.val,
                                          IF sanitized = <<>> THEN DefaultAssetName
                                          ELSE sanitized)}})
                : sanitized \in {sanitize(original_name.val)}})
              : original_name \in {file_name(payload.source)}})
            : made \in {create_dir_all(fs, target_dir.val)}})
          : target_dir \in
              {resolve_project_path(row.val.base_path,
                                    IF payload.target_dir.ok THEN payload.target_dir.val
                                    ELSE DefaultTargetDir)}})
        : fx2 \in {FxRow \o <<Fx("source_exists", fs_key(payload.source))>>}})
      : row \in {fetch_project_row(payload.project_id)}})

\* The rest of the command: the copy, the relative path and the timestamp,
\* against the file system and the table as they are by then.
copy_finish(c, f, pr) ==
    The({
      IF ~copied.ok THEN Done(Err(to_string(copied.err)), fx1, f, pr) ELSE
      The({
        IF ~relative_path.ok
        THEN Done(Err(to_string(relative_path.err)), fx1, copied.val, pr)
        ELSE Done(relative_path, fx1 \o <<Fx("update_project", <<>>)>>,
                  copied.val, touch_project(pr, c.project_id))
        : relative_path \in {to_relative_string(c.base_path, c.candidate)}})
      : copied \in {copy(f, c.source, c.candidate)},
        fx1 \in {c.fx \o <<Fx("copy_from", fs_key(c.source)),
                           Fx("copy_to", fs_key(c.candidate))>>}})

copy_project_asset(payload) ==
    The({IF c.pending THEN copy_finish(c, c.fs, projects) ELSE c.out
         : c \in {copy_begin(payload)}})

(***************************************************************************)
(* commands.rs: the project tree                                           *)
(***************************************************************************)
MAX_TREE_DEPTH == 8

\* The characters of the modelled names in code point order
Ascii == <<" ", "-", ".", "/", "0", "1", "2", "3", "4", "5", "6", "7", "8", "9",
           ":", "?", "A", "U", "\\", "a", "c", "d", "e", "g", "i", "m", "n", "p",
           "s", "t", "u", "v", "x">>

code_point(c) == CHOOSE i \in DOMAIN Ascii : Ascii[i] = c

to_lowercase(s) ==
    [i \in 1..Len(s) |-> IF s[i] = "A" THEN "a" ELSE IF s[i] = "U" THEN "u" ELSE s[i]]

\* str::cmp(a, b) = Less
str_less(a, b) ==
    \/ Len(a) < Len(b) /\ SubSeq(b, 1, Len(a)) = a
    \/ \E i \in 1..Len(a) :
        /\ i <= Len(b)
        /\ SubSeq(a, 1, i - 1) = SubSeq(b, 1, i - 1)
        /\ code_point(a[i]) < code_point(b[i])

\* The comparator without the case folding
entry_less_cased(a, b) ==
    IF a.is_directory # b.is_directory THEN a.is_directory
    ELSE str_less(a.name, b.name)

\* The comparator of entries.sort_by
entry_less(a, b) ==
    IF a.is_directory # b.is_directory THEN a.is_directory
    ELSE str_less(to_lowercase(a.name), to_lowercase(b.name))

RECURSIVE sort_by(_)
sort_by(S) ==
    IF S = {} THEN <<>>
    ELSE The({The({<<least>> \o sort_by(rest) : rest \in {S \ {least}}})
              : least \in {CHOOSE e \in S : \A o \in S : ~entry_less(o, e)}})

\* fs::read_dir: the names of the entries directly inside a directory
read_dir(f, dir) ==
    The({{q[Len(q)] : q \in {e \in (DOMAIN f.files) \cup f.dirs \cup DOMAIN f.links :
                                 Len(e) = Len(k) + 1 /\ SubSeq(e, 1, Len(k)) = k}}
         : k \in {fs_key(dir)}})

\* What a build leaves behind: its result and the directories it read,
\* each with the depth of the call that read it
Built(res, reads) == [res |-> res, reads |-> reads]

never_too_deep(depth) == FALSE

\* if depth > MAX_TREE_DEPTH
too_deep(depth) == depth > MAX_TREE_DEPTH

nothing_hidden(name) == FALSE

\* if name.starts_with('.')
hidden(name) == name # <<>> /\ name[1] = "."

children_always(nested) == Ok(nested)

\* if nested.is_empty() { None } else { Some(nested) }
children_of(nested) == IF nested = <<>> THEN None ELSE Ok(nested)

RECURSIVE build_directory_entries(_, _, _, _)
\* One entry of the loop: its name, relative path, kind and nested build.
\* DirEntry::file_type does not follow links: a link is not a directory.
visit(f, b, dir, depth, name) ==
    The({[name |-> name,
          relative |-> to_relative_string(b, path),
          is_dir |-> is_dir,
          nested |-> IF is_dir THEN build_directory_entries(f, b, path, depth + 1)
                     ELSE Built(Ok(<<>>), {})]
         : path \in {join(dir, name)}, is_dir \in {fs_key(join(dir, name)) \in f.dirs}})

build_directory_entries(f, b, dir, depth) ==
    IF too_deep(depth) THEN Built(Ok(<<>>), {})
    ELSE IF ~exists(f, dir) THEN Built(Ok(<<>>), {})
    ELSE IF fs_key(dir) \notin f.dirs
    THEN Built(Err(IoError("read_dir")), {[at |-> fs_key(dir), depth |-> depth]})
    ELSE
    The({
      The({
        IF \E e \in found : ~e.relative.ok THEN Built(Err(Message(MsgEscapes)), reads)
        ELSE IF \E e \in found : ~e.nested.res.ok
        THEN Built(Err(IoError("read_dir")), reads)
        ELSE The({Built(Ok(sort_by(entries)), reads)
                  : entries \in {{[name |-> e.name,
                                   path |-> e.relative.val,
                                   is_directory |-> e.is_dir,
                                   children |-> children_of(e.nested.res.val)]
                                  : e \in found}}})
        : reads \in {{[at |-> fs_key(dir), depth |-> depth]}
                        \cup UNION {e.nested.reads : e \in found}}})
      : found \in {{visit(f, b, dir, depth, n)
                    : n \in {m \in read_dir(f, dir) : ~hidden(m)}}}})

list_project_files(payload) ==
    IF ~require_session.ok THEN Refused(require_session) ELSE
    The({
      IF ~row.ok THEN Done(Err(to_string(row.err)), FxRow, fs, projects) ELSE
      The({
        Done(IF entries.ok THEN entries ELSE Err(to_string(entries.err)),
             FxRow \o <<Fx("read_dir", fs_key(row.val.base_path))>>, fs, projects)
        : entries \in {build_directory_entries(fs, row.val.base_path,
                                               row.val.base_path, 0).res}})
      : row \in {fetch_project_row(payload.project_id)}})

(***************************************************************************)
(* commands.rs: the worker commands, each in the world env                 *)
(***************************************************************************)
Worked(called) ==
    The({Done(IF out.res.ok THEN out.res ELSE Err(to_string(out.res.err)),
              Lift(out.fx), fs, projects)
         : out \in {called}})

cmd_transliterate_english_to_tamil(payload, env) ==
    IF ~require_session.ok THEN Refused(require_session)
    ELSE Worked(transliterate_english_to_tamil(payload.text, env))

cmd_transcribe_audio_file(audio_path, language, env) ==
    LET lang == IF language.ok THEN language.val ELSE "en-IN"
    IN  IF ~require_session.ok THEN Refused(require_session)
        ELSE Worked(transcribe_audio_file(audio_path, lang, env))

record_from_microphone(duration, language, env) ==
    LET dur == IF duration.ok THEN duration.val ELSE 5
        lang == IF language.ok THEN language.val ELSE "en-IN"
    IN  IF ~require_session.ok THEN Refused(require_session)
        ELSE Worked(record_and_transcribe(dur, lang, env))

cmd_synthesize_speech(text, language, env) ==
    IF ~require_session.ok THEN Refused(require_session)
    ELSE Worked(synthesize_speech(text, "none", env))

generate_ai_scene(prompt, context, api_key, env) ==
    LET ctx == IF context.ok THEN context.val ELSE <<>>
    IN  IF ~require_session.ok THEN Refused(require_session)
        ELSE Worked(generate_scene_ai(prompt, ctx, api_key, env))

refresh_model_inventory(env) ==
    IF ~require_session.ok THEN Refused(require_session)
    ELSE Worked(fetch_model_inventory("models", env))

(***************************************************************************)
(* auth.rs and commands.rs: accounts and the session                       *)
(***************************************************************************)
MinPasswordLen == 8

\* auth.rs: the stored hash verifies exactly the password it was made from
hash_password(password) == Ok([argon2 |-> password])

verify_password(password, password_hash) ==
    IF password_hash.argon2 = password THEN Ok(TRUE) ELSE Err(Unauthorized)

into_profile(email) == [email |-> email]

\* What an account command leaves behind: result, users table, session
Account(res, us, se) == [res |-> res, users |-> us, session |-> se]

register_user_inner(payload) ==
    LET email == to_lowercase(trim(payload.email))
    IN  IF email = <<>> THEN Account(Err(Message("Email is required")), users, session)
        ELSE IF Len(payload.password) < MinPasswordLen
        THEN Account(Err(Message("Password must be at least 8 characters long")),
                     users, session)
        ELSE IF email \in DOMAIN users
        THEN Account(Err(Message("Email already registered")), users, session)
        ELSE Account(Ok(into_profile(email)),
                     (email :> [password_hash |-> hash_password(payload.password).val])
                        @@ users,
                     SomeUser(into_profile(email)))

\* A login that drops the session when it fails
login_user_forgetful(payload) ==
    LET email == to_lowercase(trim(payload.email))
    IN  IF email \in DOMAIN users
            /\ verify_password(payload.password, users[email].password_hash).ok
        THEN Account(Ok(into_profile(email)), users, SomeUser(into_profile(email)))
        ELSE Account(Err(Unauthorized), users, NoSession)

login_user_inner(payload) ==
    LET email == to_lowercase(trim(payload.email))
    IN  IF email = <<>> THEN Account(Err(Message("Email is required")), users, session)
        ELSE IF email \notin DOMAIN users THEN Account(Err(Unauthorized), users, session)
        ELSE IF ~verify_password(payload.password, users[email].password_hash).ok
        THEN Account(Err(Unauthorized), users, session)
        ELSE Account(Ok(into_profile(email)), users, SomeUser(into_profile(email)))

(***************************************************************************)
(* Spec: the commands of one client, one at a time, on a store that        *)
(* already holds an account and a project                                  *)
(***************************************************************************)
MaxFiles == 1

Password(n, c) == [i \in 1..n |-> c]

KnownEmail == <<"u">>
KnownPassword == Password(8, "a")

Emails == {<<>>, <<" ", "U">>, <<"v">>}
Passwords == {Password(7, "a"), KnownPassword}

ProjectIds == {"p1", "p9"}

SourceDir == <<"/", "x">>
SourceFile == <<"/", "x", "/", "a", ".", "p">>
SourceOddName == <<"/", "x", "/", "?">>
SourceMissing == <<"/", "x", "/", "n">>
Sources == {SourceFile, SourceOddName, SourceMissing}

TargetDirs == {None, Ok(<<"d">>)}

CmdPaths == {<<" ">>, <<"a">>, <<"d", "/", "a">>, <<"c", ":", "a">>}

Contents == {"x", "y"}

CmdTexts == {<<>>, <<"a">>}

\* Three worlds for the worker commands: no toolkit, a worker that fails,
\* a worker that answers.
CmdEnvs ==
    {e \in BridgeEnvs :
        /\ e.taskRuns /\ e.spawnOk /\ e.pipeFits /\ e.worker.consumes
        /\ e.ml.canonOk /\ ~e.ml.override
        /\ \/ e.ml.pkg = {} /\ e.worker.exit = 0 /\ e.worker.stderr = <<>>
                /\ e.worker.stdout.keys = {}  /\ ~e.worker.stdout.json
           \/ e.ml.pkg # {} /\ e.worker.exit = 1 /\ e.worker.stderr # <<>>
                /\ ~e.worker.stdout.json
           \/ e.ml.pkg # {} /\ e.worker.exit = 0 /\ e.worker.stderr = <<>>
                /\ e.worker.stdout.keys = {"candidates", "models"}}

NoCall == [op |-> "none", had_session |-> FALSE, res |-> None, fx |-> <<>>]

InitStore ==
    /\ BridgeUnused
    /\ platform \in Platforms
    /\ base = ProjectRoot(platform)
    /\ relative = <<>>
    /\ resolved = None
    /\ roundtrip = None
    /\ pstep = "unused"
    /\ session = NoSession
    /\ users = (KnownEmail :> [password_hash |-> hash_password(KnownPassword).val])
    /\ projects = ("p1" :> [slug |-> <<"p">>, base_path |-> ProjectRoot(platform),
                            updated_at |-> 0])
    /\ fs = [files |-> (fs_key(SourceFile) :> "s") @@ (fs_key(SourceOddName) :> "s"),
             dirs |-> Prefixes(fs_key(ProjectRoot(platform)))
                        \cup Prefixes(fs_key(SourceDir)),
             links |-> <<>>]
    /\ last = NoCall

Init ==
    /\ InitStore
    /\ imp = <<>>

\* A command ran from its call to its return
Returned(op, called) ==
    \E out \in {called} :
        /\ \A p \in DOMAIN out.projects : out.projects[p].updated_at <= MaxUpdates
        /\ Cardinality(DOMAIN out.fs.files) <= 2 + MaxFiles
        /\ last' = [op |-> op, had_session |-> session.present,
                    res |-> out.res, fx |-> out.fx]
        /\ fs' = out.fs
        /\ projects' = out.projects
        /\ UNCHANGED <<pathVars, bridgeVars, session, users, imp>>

Accounted(op, called) ==
    \E out \in {called} :
        /\ Cardinality(DOMAIN out.users) <= 2
        /\ last' = [op |-> op, had_session |-> session.present,
                    res |-> IF out.res.ok THEN out.res ELSE Err(to_string(out.res.err)),
                    fx |-> <<>>]
        /\ users' = out.users
        /\ session' = out.session
        /\ UNCHANGED <<pathVars, bridgeVars, projects, fs, imp>>

RegisterUser ==
    \E e \in Emails, pw \in Passwords :
        Accounted("register_user", register_user_inner([email |-> e, password |-> pw]))

LoginUser ==
    \E e \in Emails, pw \in Passwords :
        Accounted("login_user", login_user_inner([email |-> e, password |-> pw]))

LogoutUser == Accounted("logout_user", Account(Ok(TRUE), users, NoSession))

CmdTransliterate ==
    \E text \in CmdTexts, env \in CmdEnvs :
        Returned("transliterate", cmd_transliterate_english_to_tamil([text |-> text], env))

CmdTranscribeFile ==
    \E env \in CmdEnvs :
        Returned("transcribe_file", cmd_transcribe_audio_file("audio.wav", None, env))

CmdRecordMic ==
    \E env \in CmdEnvs :
        Returned("transcribe_mic", record_from_microphone(None, None, env))

CmdSynthesize ==
    \E text \in CmdTexts, env \in CmdEnvs :
        Returned("synthesize", cmd_synthesize_speech(text, None, env))

CmdGenerateScene ==
    \E text \in CmdTexts, env \in CmdEnvs :
        Returned("generate_scene", generate_ai_scene(text, None, "none", env))

CmdModelInventory ==
    \E env \in CmdEnvs : Returned("model_inventory", refresh_model_inventory(env))

ListFiles ==
    \E id \in ProjectIds :
        Returned("list_files", list_project_files([project_id |-> id]))

Load ==
    \E id \in ProjectIds, p \in CmdPaths :
        Returned("load", load_markdown_file([project_id |-> id, file_path |-> p]))

Save ==
    \E id \in ProjectIds, p \in CmdPaths, c \in Contents :
        Returned("save", save_markdown_file(
            [project_id |-> id, file_path |-> p, content |-> c]))

Import ==
    \E id \in ProjectIds, s \in Sources, d \in TargetDirs :
        Returned("import", copy_project_asset(
            [project_id |-> id, source |-> s, target_dir |-> d]))

Next ==
    \/ RegisterUser
    \/ LoginUser
    \/ LogoutUser
    \/ CmdTransliterate
    \/ CmdTranscribeFile
    \/ CmdRecordMic
    \/ CmdSynthesize
    \/ CmdGenerateScene
    \/ CmdModelInventory
    \/ ListFiles
    \/ Load
    \/ Save
    \/ Import

Spec == Init /\ [][Next]_vars

(***************************************************************************)
(* SpecImport: two client tasks importing while files are saved.  Nothing  *)
(* orders one command's file system calls against another's: an import is  *)
(* interleaved between its probing loop and its copy.                      *)
(***************************************************************************)
Tasks == {"t1", "t2"}

SavedBeside == {<<"d", "/", "a", ".", "p">>}

InitImport ==
    /\ InitStore
    /\ imp = [t \in Tasks |-> [pc |-> "idle"]]

ImportBegin(t) ==
    /\ imp[t].pc = "idle"
    /\ \E s \in Sources, d \in TargetDirs :
        \E c \in {copy_begin([project_id |-> "p1", source |-> s, target_dir |-> d])} :
            /\ fs' = IF c.pending THEN c.fs ELSE c.out.fs
            /\ imp' = [imp EXCEPT ![t] =
                        IF c.pending
                        THEN [pc |-> "copy", had_session |-> session.present,
                              c |-> [project_id |-> c.project_id,
                                     base_path |-> c.base_path,
                                     source |-> c.source,
                                     candidate |-> c.candidate,
                                     fx |-> c.fx]]
                        ELSE [pc |-> "done", had_session |-> session.present,
                              res |-> c.out.res, fx |-> c.out.fx,
                              overwrote |-> FALSE]]
    /\ UNCHANGED <<pathVars, bridgeVars, session, users, projects, last>>

ImportCopy(t) ==
    /\ imp[t].pc = "copy"
    /\ \E out \in {copy_finish(imp[t].c, fs, projects)} :
           /\ fs' = out.fs
           /\ projects' = out.projects
           /\ imp' = [imp EXCEPT ![t] =
                        [pc |-> "done", had_session |-> imp[t].had_session,
                         res |-> out.res, fx |-> out.fx,
                         overwrote |-> out.res.ok /\ exists(fs, imp[t].c.candidate)]]
    /\ UNCHANGED <<pathVars, bridgeVars, session, users, last>>

SaveBeside ==
    \E p \in SavedBeside, c \in Contents :
        Returned("save", save_markdown_file(
            [project_id |-> "p1", file_path |-> p, content |-> c]))

NextImport ==
    \/ LoginUser
    \/ \E t \in Tasks : ImportBegin(t)
    \/ \E t \in Tasks : ImportCopy(t)
    \/ SaveBeside

SpecImport == InitImport /\ [][NextImport]_vars

(***************************************************************************)
(* SpecAsset: imports into a target directory that already holds entries   *)
(***************************************************************************)
AssetDir == <<"d">>

\* Names the target directory may hold before the import
AssetPool ==
    {<<"a", ".", "p">>, <<"a", "-", "1", ".", "p">>, <<"a", "-", "2", ".", "p">>,
     <<"a">>, <<"a", "-", "1">>,
     <<"a", "s", "s", "e", "t">>, <<"a", "s", "s", "e", "t", "-", "1">>}

SourceBare == <<"/", "x", "/", "a">>
AssetSources == {SourceFile, SourceBare, SourceOddName, SourceMissing}

\* The file system with the target directory made and the given names in
\* it, each a regular file
WithAssets(f, root, names) ==
    [f EXCEPT
        !.dirs = @ \cup {fs_key(join(root, AssetDir))},
        !.files = [k \in {fs_key(join(join(root, AssetDir), n)) : n \in names}
                        |-> "o"]
                  @@ (fs_key(SourceBare) :> "s") @@ @]

InitAsset ==
    /\ BridgeUnused
    /\ platform \in Platforms
    /\ base = ProjectRoot(platform)
    /\ relative = <<>>
    /\ resolved = None
    /\ roundtrip = None
    /\ pstep = "unused"
    /\ session = NoSession
    /\ users = (KnownEmail :> [password_hash |-> hash_password(KnownPassword).val])
    /\ projects = ("p1" :> [slug |-> <<"p">>, base_path |-> ProjectRoot(platform),
                            updated_at |-> 0])
    /\ \E names \in SUBSET AssetPool :
        fs = WithAssets(
                [files |-> (fs_key(SourceFile) :> "s") @@ (fs_key(SourceOddName) :> "s"),
                 dirs |-> Prefixes(fs_key(ProjectRoot(platform)))
                            \cup Prefixes(fs_key(SourceDir)),
                 links |-> <<>>],
                ProjectRoot(platform), names)
    /\ last = NoCall
    /\ imp = <<>>

ImportAsset(s) ==
    \E out \in {copy_project_asset([project_id |-> "p1", source |-> s,
                                    target_dir |-> Ok(AssetDir)])} :
        /\ out.projects["p1"].updated_at <= MaxUpdates
        /\ last' = [op |-> "import", had_session |-> session.present,
                    res |-> out.res, fx |-> out.fx]
        /\ fs' = out.fs
        /\ projects' = out.projects
        /\ UNCHANGED <<pathVars, bridgeVars, session, users, imp>>

NextAsset ==
    \/ LoginUser
    \/ \E s \in AssetSources : ImportAsset(s)

SpecAsset == InitAsset /\ [][NextAsset]_vars

(***************************************************************************)
(* The tree builder over drawn directory trees: a chain of nested          *)
(* directories deeper than the builder goes, entries of both kinds and     *)
(* both cases, dot entries, and links that point at themselves and back at *)
(* the root.                                                               *)
(***************************************************************************)
MaxNest == 10

\* The name of an entry below the root: the names on the way to it
TreeFile(at) == [kind |-> "file", at |-> at, to |-> <<>>]
TreeDir(at) == [kind |-> "dir", at |-> at, to |-> <<>>]
TreeLink(at, to) == [kind |-> "link", at |-> at, to |-> to]

TreeGroups ==
    {{TreeFile(<<<<"a">>>>), TreeFile(<<<<"U">>>>)},
     {TreeFile(<<<<"A">>>>)},
     {TreeDir(<<<<"c">>>>)},
     {TreeDir(<<<<"u">>>>), TreeFile(<<<<"u">>, <<"a">>>>),
      TreeFile(<<<<"u">>, <<".", "g">>>>), TreeDir(<<<<"u">>, <<"c">>>>)},
     {TreeDir(<<<<".", "g">>>>), TreeFile(<<<<".", "g">>, <<"a">>>>),
      TreeFile(<<<<".", "e">>>>)},
     {TreeLink(<<<<"s">>>>, <<<<"s">>>>), TreeLink(<<<<"t">>>>, <<>>)}}

\* n directories named d, each inside the one before, a file in the last
TreeChain(n) ==
    {TreeDir([i \in 1..k |-> <<"d">>]) : k \in 1..n}
        \cup (IF n = 0 THEN {} ELSE {TreeFile([i \in 1..n |-> <<"d">>] \o <<<<"a">>>>)})

TreeAt(root, items) ==
    The({[files |-> [k \in {r \o e.at : e \in {i \in items : i.kind = "file"}} |-> "o"],
          dirs |-> Prefixes(r) \cup {r \o e.at : e \in {i \in items : i.kind = "dir"}},
          links |-> [k \in {r \o e.at : e \in {i \in items : i.kind = "link"}} |->
                        r \o (CHOOSE e \in items : e.kind = "link" /\ r \o e.at = k).to]]
         : r \in {fs_key(root)}})

MissingDir(root) == join(root, <<"n">>)

InitTree ==
    /\ BridgeUnused
    /\ platform \in Platforms
    /\ base = ProjectRoot(platform)
    /\ relative = <<>>
    /\ resolved = None
    /\ roundtrip = None
    /\ pstep = "unused"
    /\ session = NoSession
    /\ users = <<>>
    /\ projects = <<>>
    /\ \E n \in 0..MaxNest, picked \in SUBSET TreeGroups :
        fs = TreeAt(ProjectRoot(platform), TreeChain(n) \cup UNION picked)
    /\ last = NoCall
    /\ imp = <<>>

\* build_directory_entries(base, dir, depth) on the tree
Build(dir, depth) ==
    \E out \in {build_directory_entries(fs, ProjectRoot(platform), dir, depth)} :
        /\ last' = [op |-> "build", dir |-> dir, depth |-> depth,
                    res |-> out.res, reads |-> out.reads]
        /\ UNCHANGED <<pathVars, bridgeVars, session, users, projects, fs, imp>>

NextTree ==
    \E dir \in {ProjectRoot(platform), MissingDir(ProjectRoot(platform))},
       depth \in {0, MAX_TREE_DEPTH + 1} : Build(dir, depth)

SpecTree == InitTree /\ [][NextTree]_vars

(***************************************************************************)
(* The commands that hand a path back (list, save, import), called with    *)
(* paths and target directories written in several ways, over a project    *)
(* that may already hold entries.                                          *)
(***************************************************************************)
HeldPaths == {<<"a", "\\", "a">>, <<"d", "/", "a", ".", "p">>}

GivenDirs ==
    {None, Ok(<<"d">>), Ok(<<".", "/", "d">>), Ok(<<"d", "/">>),
     Ok(<<"d", "\\", "e">>), Ok(<<"c", ":", "d">>)}

GivenPaths ==
    {<<"a">>, <<"d", "/", "a">>, <<"d", "\\", "a">>, <<".", "/", "a">>,
     <<"c", ":", "a">>}

WithHeld(f, root, paths) ==
    The({[f EXCEPT
            !.dirs = @ \cup UNION {Prefixes(SubSeq(k, 1, Len(k) - 1)) : k \in keys},
            !.files = [k \in keys |-> "o"] @@ @]
         : keys \in {{fs_key(join(root, p)) : p \in paths}}})

InitReturned ==
    /\ BridgeUnused
    /\ platform \in Platforms
    /\ base = ProjectRoot(platform)
    /\ relative = <<>>
    /\ resolved = None
    /\ roundtrip = None
    /\ pstep = "unused"
    /\ session = NoSession
    /\ users = (KnownEmail :> [password_hash |-> hash_password(KnownPassword).val])
    /\ projects = ("p1" :> [slug |-> <<"p">>, base_path |-> ProjectRoot(platform),
                            updated_at |-> 0])
    /\ \E held \in SUBSET HeldPaths :
        fs = WithHeld(
                [files |-> (fs_key(SourceFile) :> "s"),
                 dirs |-> Prefixes(fs_key(ProjectRoot(platform)))
                            \cup Prefixes(fs_key(SourceDir)),
                 links |-> <<>>],
                ProjectRoot(platform), held)
    /\ last = NoCall
    /\ imp = <<>>

\* A call of a command, remembered with the path or directory it was given
Given(op, arg, called) ==
    \E out \in {called} :
        /\ out.projects["p1"].updated_at <= MaxUpdates
        /\ Cardinality(DOMAIN out.fs.files) <= Cardinality(HeldPaths) + 1 + MaxFiles
        /\ last' = [op |-> op, had_session |-> session.present,
                    res |-> out.res, fx |-> out.fx, arg |-> arg]
        /\ fs' = out.fs
        /\ projects' = out.projects
        /\ UNCHANGED <<pathVars, bridgeVars, session, users, imp>>

ListGiven ==
    Given("list", None, list_project_files([project_id |-> "p1"]))

SaveGiven(p) ==
    Given("save", Ok(p),
          save_markdown_file([project_id |-> "p1", file_path |-> p, content |-> "x"]))

ImportGiven(d) ==
    Given("import", d,
          copy_project_asset([project_id |-> "p1", source |-> SourceFile,
                              target_dir |-> d]))

NextReturned ==
    \/ LoginUser
    \/ ListGiven
    \/ \E p \in GivenPaths : SaveGiven(p)
    \/ \E d \in GivenDirs : ImportGiven(d)

SpecReturned == InitReturned /\ [][NextReturned]_vars

(***************************************************************************)
(* Saving and loading the files of one project, which may hold files       *)
(* already.                                                                *)
(***************************************************************************)
NoteHeld == {<<"a">>, <<"d", "/", "a">>}

NotePaths ==
    {<<"a">>, <<"d", "/", "a">>, <<"e", "/", "a">>, <<"d">>, <<"/">>, <<"c", ":", "a">>}

InitNotes ==
    /\ BridgeUnused
    /\ platform \in Platforms
    /\ base = ProjectRoot(platform)
    /\ relative = <<>>
    /\ resolved = None
    /\ roundtrip = None
    /\ pstep = "unused"
    /\ session = NoSession
    /\ users = (KnownEmail :> [password_hash |-> hash_password(KnownPassword).val])
    /\ projects = ("p1" :> [slug |-> <<"p">>, base_path |-> ProjectRoot(platform),
                            updated_at |-> 0])
    /\ \E held \in SUBSET NoteHeld :
        fs = WithHeld([files |-> <<>>,
                       dirs |-> Prefixes(fs_key(ProjectRoot(platform))),
                       links |-> <<>>],
                      ProjectRoot(platform), held)
    /\ last = NoCall
    /\ imp = <<>>

\* A save or load, remembered with the path and content it was given
Noted(op, path, content, called) ==
    \E out \in {called} :
        /\ out.projects["p1"].updated_at <= MaxUpdates + 1
        /\ last' = [op |-> op, had_session |-> session.present,
                    res |-> out.res, fx |-> out.fx, path |-> path, content |-> content]
        /\ fs' = out.fs
        /\ projects' = out.projects
        /\ UNCHANGED <<pathVars, bridgeVars, session, users, imp>>

SaveNote(p, c) ==
    Noted("save", p, c,
          save_markdown_file([project_id |-> "p1", file_path |-> p, content |-> c]))

LoadNote(p) ==
    Noted("load", p, "", load_markdown_file([project_id |-> "p1", file_path |-> p]))

NextNotes ==
    \/ LoginUser
    \/ \E p \in NotePaths, c \in Contents : SaveNote(p, c)
    \/ \E p \in NotePaths : LoadNote(p)

SpecNotes == InitNotes /\ [][NextNotes]_vars

(***************************************************************************)
(* filesystem.rs and commands.rs: create_project                           *)
(***************************************************************************)
SlugLetters == {"a", "c", "d", "e", "g", "i", "m", "n", "p", "s", "t", "u", "v", "x"}
SlugDigits == {Digits[i] : i \in DOMAIN Digits}

\* The map of sanitize_slug: a-z and 0-9 kept, A-Z lower-cased, the rest '-'
slug_char(ch) ==
    IF ch \in SlugLetters \cup SlugDigits THEN ch
    ELSE IF ch = "A" THEN "a"
    ELSE IF ch = "U" THEN "u"
    ELSE "-"

\* str::trim_matches('-')
RECURSIVE trim_matches(_)
trim_matches(s) ==
    IF s = <<>> THEN s
    ELSE IF s[1] = "-" THEN trim_matches(Tail(s))
    ELSE IF s[Len(s)] = "-" THEN trim_matches(SubSeq(s, 1, Len(s) - 1))
    ELSE s

\* str::replace("--", "-"): the matches are found left to right and do not
\* overlap
RECURSIVE replace_dashes(_)
replace_dashes(s) ==
    IF Len(s) < 2 THEN s
    ELSE IF s[1] = "-" /\ s[2] = "-" THEN <<"-">> \o replace_dashes(SubSeq(s, 3, Len(s)))
    ELSE <<s[1]>> \o replace_dashes(Tail(s))

sanitize_slug(name) ==
    replace_dashes(trim_matches([i \in DOMAIN name |-> slug_char(name[i])]))

MsgSlugExists == "A project with slug '{slug}' already exists"
MsgNoTemplate == "Template not found"

assert_slug_unique(existing, slug) ==
    IF slug \in existing THEN Err(Message(MsgSlugExists)) ELSE Ok(slug)

StorageRoot(pf) ==
    IF pf = "windows" THEN <<"c", ":", "\\", "s">> ELSE <<"/", "s">>

ProjectsDir == <<"p", "r", "o", "j", "e", "c", "t", "s">>

project_path(storage_root, slug) == join(join(storage_root, ProjectsDir), slug)

ensure_projects_root(f, storage_root) == create_dir_all(f, join(storage_root, ProjectsDir))

\* default_templates: the directory structure of short-film
ShortFilmDirs ==
    <<<<"d", "r", "a", "f", "t", "s", "/", "t", "a", "m", "i", "l">>,
      <<"r", "e", "f", "e", "r", "e", "n", "c", "e", "s">>,
      <<"a", "u", "d", "i", "o", "/", "v", "o", "i", "c", "e", "-", "n", "o", "t", "e", "s">>,
      <<"e", "x", "p", "o", "r", "t", "s">>>>

default_templates == [id \in {"short-film"} |-> [directory_structure |-> ShortFilmDirs]]

RECURSIVE ensure_template_scaffold(_, _, _)
ensure_template_scaffold(f, root, dirs) ==
    IF dirs = <<>> THEN Ok(f)
    ELSE The({IF ~made.ok THEN made
              ELSE ensure_template_scaffold(made.val, root, Tail(dirs))
              : made \in {create_dir_all(f, join(root, Head(dirs)))}})

ReadmeName == <<"R", "E", "A", "D", "M", "E", ".", "m", "d">>

write_markdown_placeholder(f, path) ==
    IF exists(f, path) THEN Ok(f) ELSE write(f, path, "readme")

\* Uuid::new_v4: an id no project has
new_id(pr) == CHOOSE i \in 1..(Cardinality(DOMAIN pr) + 1) : i \notin DOMAIN pr

create_project_inner(payload) ==
    IF ~require_session.ok THEN Refused(require_session) ELSE
    The({
      IF ~unique.ok THEN Done(Err(to_string(unique.err)), <<Fx("select_slugs", <<>>)>>,
                              fs, projects)
      ELSE IF payload.template_id \notin DOMAIN default_templates
      THEN Done(Err(to_string(Message(MsgNoTemplate))), <<Fx("select_slugs", <<>>)>>,
                fs, projects)
      ELSE
      The({
        IF ~rooted.ok THEN Done(Err(to_string(rooted.err)), <<Fx("select_slugs", <<>>)>>,
                                fs, projects) ELSE
        The({
          IF ~scaffold.ok THEN Done(Err(to_string(scaffold.err)), fx, rooted.val, projects)
          ELSE
          The({
            IF ~readme.ok THEN Done(Err(to_string(readme.err)), fx, scaffold.val, projects)
            ELSE
            The({
              Done(Ok([id |-> id, slug |-> slug, base_path |-> project_dir]),
                   fx \o <<Fx("insert_project", <<>>)>>, readme.val,
                   (id :> [slug |-> slug, base_path |-> project_dir, updated_at |-> 0])
                        @@ projects)
              : id \in {new_id(projects)}})
            : readme \in {write_markdown_placeholder(scaffold.val,
                                                     join(project_dir, ReadmeName))}})
          : scaffold \in {ensure_template_scaffold(
                              rooted.val, project_dir,
                              default_templates[payload.template_id].directory_structure)},
            fx \in {<<Fx("select_slugs", <<>>),
                      Fx("ensure_projects_root", fs_key(join(StorageRoot(platform),
                                                             ProjectsDir))),
                      Fx("ensure_template_scaffold", fs_key(project_dir))>>}})
        : rooted \in {ensure_projects_root(fs, StorageRoot(platform))},
          project_dir \in {project_path(StorageRoot(platform), slug)}})
      : slug \in {sanitize_slug(payload.name)},
        unique \in {assert_slug_unique({projects[p].slug : p \in DOMAIN projects},
                                       sanitize_slug(payload.name))}})

(***************************************************************************)
(* Projects created one after another in an empty storage directory        *)
(***************************************************************************)
MaxProjects == 2

ProjectNames ==
    {<<"a">>, <<"A">>, <<"a", " ", "c">>, <<"?">>, <<"-", "-">>,
     <<"a", "?", "?", "?", "c">>}

TemplateIds == {"short-film", "none"}

InitProjects ==
    /\ BridgeUnused
    /\ platform \in Platforms
    /\ base = StorageRoot(platform)
    /\ relative = <<>>
    /\ resolved = None
    /\ roundtrip = None
    /\ pstep = "unused"
    /\ session = NoSession
    /\ users = (KnownEmail :> [password_hash |-> hash_password(KnownPassword).val])
    /\ projects = <<>>
    /\ fs = [files |-> <<>>, dirs |-> Prefixes(fs_key(StorageRoot(platform))),
             links |-> <<>>]
    /\ last = NoCall
    /\ imp = <<>>

CreateProject(name, template_id) ==
    \E out \in {create_project_inner([name |-> name, template_id |-> template_id])} :
        /\ Cardinality(DOMAIN out.projects) <= MaxProjects
        /\ last' = [op |-> "create_project", had_session |-> session.present,
                    res |-> out.res, fx |-> out.fx]
        /\ fs' = out.fs
        /\ projects' = out.projects
        /\ UNCHANGED <<pathVars, bridgeVars, session, users, imp>>

NextProjects ==
    \/ LoginUser
    \/ \E name \in ProjectNames, template_id \in TemplateIds :
        CreateProject(name, template_id)

SpecProjects == InitProjects /\ [][NextProjects]_vars

(***************************************************************************)
(* The async runtime: each command is a task polled by one of the          *)
(* runtime's worker threads.  A step that awaits (the session lock, a      *)
(* query, a join handle) gives the thread back; a blocking call keeps the  *)
(* thread it runs on until it returns, and it may take arbitrarily long.   *)
(* A closure passed to spawn_blocking runs on a thread of the blocking     *)
(* pool.                                                                   *)
(***************************************************************************)
AsyncThreads == 1
MaxRequests == 2

\* A step of a command: what it calls, whether the call blocks, and whether
\* the call is made inside a spawn_blocking closure
Awaited(what) == [what |-> what, blocking |-> FALSE, offloaded |-> FALSE]
Inline(what) == [what |-> what, blocking |-> TRUE, offloaded |-> FALSE]
Offloaded(what) == [what |-> what, blocking |-> TRUE, offloaded |-> TRUE]

\* The steps of each command, in the order of its body
Steps(cmd) ==
    CASE cmd = "list_project_files" ->
            <<Awaited("require_session"), Awaited("fetch_project_row"),
              Inline("build_directory_entries")>>
      [] cmd = "load_markdown_file" ->
            <<Awaited("require_session"), Awaited("fetch_project_row"),
              Inline("fs::read_to_string")>>
      [] cmd = "save_markdown_file" ->
            <<Awaited("require_session"), Awaited("fetch_project_row"),
              Inline("fs::create_dir_all"), Inline("fs::write"),
              Awaited("update_project")>>
      [] cmd = "copy_project_asset" ->
            <<Awaited("require_session"), Awaited("fetch_project_row"),
              Inline("fs::create_dir_all"), Inline("fs::copy"),
              Awaited("update_project")>>
      [] cmd = "transcribe_audio_file" ->
            <<Awaited("require_session"), Offloaded("invoke_python_stt_file")>>
      [] cmd = "refresh_model_inventory" ->
            <<Awaited("require_session"), Offloaded("python_model_inventory")>>

RuntimeCommands ==
    {"list_project_files", "load_markdown_file", "save_markdown_file",
     "copy_project_asset", "transcribe_audio_file", "refresh_model_inventory"}

InitRuntime ==
    /\ PathUnused
    /\ CmdUnused
    /\ bInput = <<>>
    /\ bEnv = CHOOSE e \in BridgeEnvs : TRUE
    /\ bCall = BridgeIdle
    /\ xch = <<>>
    /\ rt = <<>>

\* The tasks that hold a worker thread of the runtime
OnAsyncThread == {i \in DOMAIN rt : rt[i].where = "async_thread"}

Scheduled(next) ==
    /\ rt' = next
    /\ UNCHANGED <<pathVars, bInput, bEnv, bCall, xch, cmdVars>>

Stepped(task) ==
    IF task.at = Len(Steps(task.cmd))
    THEN [task EXCEPT !.where = "done"]
    ELSE [task EXCEPT !.at = @ + 1, !.where = "ready"]

\* A command is invoked: tauri spawns its future on the runtime
Arrive(cmd) ==
    /\ Len(rt) < MaxRequests
    /\ Scheduled(Append(rt, [cmd |-> cmd, at |-> 1, where |-> "ready"]))

\* A free worker thread polls the task through a step that awaits
PollAwait(i) ==
    /\ rt[i].where = "ready"
    /\ Cardinality(OnAsyncThread) < AsyncThreads
    /\ ~Steps(rt[i].cmd)[rt[i].at].blocking
    /\ Scheduled([rt EXCEPT ![i] = Stepped(@)])

\* A free worker thread polls the task into spawn_blocking: the closure
\* goes to the blocking pool and the task awaits its join handle
PollOffload(i) ==
    /\ rt[i].where = "ready"
    /\ Cardinality(OnAsyncThread) < AsyncThreads
    /\ Steps(rt[i].cmd)[rt[i].at].blocking
    /\ Steps(rt[i].cmd)[rt[i].at].offloaded
    /\ Scheduled([rt EXCEPT ![i].where = "blocking_pool"])

\* A free worker thread polls the task into a blocking call made in the
\* body of the async fn: the call runs on that worker thread
PollInline(i) ==
    /\ rt[i].where = "ready"
    /\ Cardinality(OnAsyncThread) < AsyncThreads
    /\ Steps(rt[i].cmd)[rt[i].at].blocking
    /\ ~Steps(rt[i].cmd)[rt[i].at].offloaded
    /\ Scheduled([rt EXCEPT ![i].where = "async_thread"])

\* The blocking call returns
BlockingReturns(i) ==
    /\ rt[i].where \in {"async_thread", "blocking_pool"}
    /\ Scheduled([rt EXCEPT ![i] = Stepped(@)])

NextRuntime ==
    \/ \E cmd \in RuntimeCommands : Arrive(cmd)
    \/ \E i \in DOMAIN rt : PollAwait(i)
    \/ \E i \in DOMAIN rt : PollOffload(i)
    \/ \E i \in DOMAIN rt : PollInline(i)
    \/ \E i \in DOMAIN rt : BlockingReturns(i)

SpecRuntime == InitRuntime /\ [][NextRuntime]_vars

(***************************************************************************)
(* Claims about the path sandbox (checked under SpecPath)                  *)
(***************************************************************************)

\* p lies lexically under b: b's components are a prefix of p's, and what
\* follows them are plain names only.
LexicallyUnder(p, b) ==
    /\ starts_with(p, b)
    /\ \A i \in (Len(components(b)) + 1)..Len(components(p)) :
           components(p)[i].kind = "Normal"

\* The pieces of s between separators, "/" and "\" both counting as one.
RECURSIVE Segments(_)
Segments(s) ==
    IF s = <<>> THEN <<<<>>>>
    ELSE LET rest == Segments(Tail(s))
         IN  IF Head(s) \in {"/", "\\"}
             THEN <<<<>>>> \o rest
             ELSE <<<<Head(s)>> \o rest[1]>> \o Tail(rest)

HasParentSegment(s) ==
    \E i \in 1..Len(Segments(s)) : Segments(s)[i] = <<".", ".">>

AllWhitespace(s) == \A i \in 1..Len(s) : IsWhitespace(s[i])

\* The normal form the round-trip claim names: p trimmed, leading "/" and
\* "\" stripped, separators written as "/".
NormalForm(s) == replace_backslash(trim_start_matches(trim(s)))

\* C1: whenever resolve succeeds, the returned path lies lexically under
\* the project root (root joined with a relative remainder that has no
\* parent-directory segment).
C1_SandboxBoundary ==
    (pstep # "input" /\ resolved.ok) => LexicallyUnder(resolved.val, base)

\* C2: every path string with a ".." segment, whatever the separators
\* around it, is refused by resolve with PathEscape.
C2_ParentSegmentRefused ==
    (pstep # "input" /\ HasParentSegment(relative))
        => (~resolved.ok /\ resolved.err \in PathEscape)

\* C4: an empty or whitespace-only path string is refused by resolve with
\* InvalidPath.
C4_BlankIsInvalidPath ==
    (pstep # "input" /\ AllWhitespace(relative))
        => (~resolved.ok /\ resolved.err \in InvalidPath)

C4_Witness ==
    /\ pstep = "resolved"
    /\ relative = <<" ", " ">>
    /\ ~resolved.ok

\* C5: for every path accepted by resolve, to_relative of the resolved
\* path succeeds and equals the normal form of the input.
C5_RoundTrip ==
    (pstep = "relative")
        => (roundtrip.ok /\ roundtrip.val = NormalForm(relative))

(***************************************************************************)
(* Claims about the worker bridge (checked under SpecBridge)               *)
(***************************************************************************)
Has(fx, e) == \E i \in 1..Len(fx) : fx[i] = e

NonFallbackOps ==
    {"transcribe_file", "transcribe_mic", "synthesize", "generate_scene", "model_inventory"}

\* The specification's WorkerFailed and WorkerProtocolError, as the errors
\* the code raises.
IsWorkerFailed(e) ==
    e.kind = "Message" /\ e.text \in {MsgCliExited, MsgSttFailed, MsgTtsFailed, MsgLlmFailed}

IsWorkerProtocolError(e) == e.kind = "Json"

\* The transliteration worker answered as the protocol asks: everything
\* ran, it exited zero and printed a document with a candidates list.
TransliterationServed ==
    /\ bEnv.taskRuns
    /\ Has(bCall.fx, "wait")
    /\ bEnv.worker.exit = 0
    /\ bEnv.worker.stdout.json
    /\ "candidates" \in bEnv.worker.stdout.keys

\* The worker printed something that is not the JSON the operation expects.
UnexpectedStdout(op, stdout) ==
    \/ ~stdout.json
    \/ op = "model_inventory" /\ "models" \notin stdout.keys

\* C6: transliterate never returns an error, and for a non-blank input
\* every worker failure (root not found, spawn failure, failed write of
\* the input, non-zero exit, unexpected output) yields exactly one
\* candidate, the input unchanged.
C6_TransliterationFallback ==
    (bCall.op = "transliterate")
        => /\ bCall.res.ok
           /\ (trim(bInput) # <<>> /\ ~TransliterationServed)
                  => bCall.res.val = <<bInput>>

C6_Witness ==
    /\ bCall.op = "transliterate"
    /\ bInput = <<" ", "a", " ">>
    /\ Has(bCall.fx, "wait")
    /\ bEnv.worker.exit = 1
    /\ bCall.res = Ok(<<bInput>>)

\* C7: transliterating an empty or whitespace-only string returns no
\* candidate, without worker-root discovery and without a spawn.
C7_BlankShortCircuit ==
    (bCall.op = "transliterate" /\ AllWhitespace(bInput))
        => /\ bCall.res = Ok(<<>>)
           /\ ~Has(bCall.fx, "locate_ml_root")
           /\ ~Has(bCall.fx, "spawn")
           /\ ~Has(bCall.fx, "spawn_failed")

C7_Witness ==
    /\ bCall.op = "transliterate"
    /\ bInput = <<" ">>
    /\ bEnv.taskRuns /\ bEnv.spawnOk /\ locate_ml_root(bEnv.ml).ok
    /\ bCall.res = Ok(<<>>)

\* C8: when the worker of a non-fallback operation is waited for and has
\* exited non-zero, the operation fails with WorkerFailed carrying the
\* captured stderr text and the exit code.
C8_WorkerFailedCarriesCode ==
    (bCall.op \in NonFallbackOps /\ Has(bCall.fx, "wait") /\ bEnv.worker.exit # 0)
        => /\ ~bCall.res.ok
           /\ IsWorkerFailed(bCall.res.err)
           /\ bCall.res.err.stderr = {bEnv.worker.stderr}
           /\ bCall.res.err.status = {bEnv.worker.exit}

\* C9: when the worker of a non-fallback operation is waited for, has
\* exited zero and printed something that is not the expected JSON, the
\* operation returns the WorkerProtocolError value.
C9_ProtocolError ==
    (/\ bCall.op \in NonFallbackOps
     /\ Has(bCall.fx, "wait")
     /\ bEnv.worker.exit = 0
     /\ UnexpectedStdout(bCall.op, bEnv.worker.stdout))
        => (~bCall.res.ok /\ IsWorkerProtocolError(bCall.res.err))

C9_Witness ==
    /\ bCall.op = "model_inventory"
    /\ bEnv.worker.exit = 0
    /\ bEnv.worker.stdout = [json |-> TRUE, keys |-> {"candidates"}]
    /\ bCall.res = Err(JsonError)

(***************************************************************************)
(* Claims about the commands (checked under Spec and SpecImport)           *)
(***************************************************************************)
CoreOps == {"transliterate", "transcribe_file", "transcribe_mic", "synthesize",
            "generate_scene", "model_inventory", "list_files", "load", "save",
            "import"}

\* C3: a core operation called while the session is absent fails with
\* Unauthorized, and has by then made no project lookup, no file system
\* access, no worker-root discovery and no spawn.
C3_AuthorizationPrecondition ==
    (last.op \in CoreOps /\ ~last.had_session)
        => /\ ~last.res.ok
           /\ last.res.err = to_string(Unauthorized)
           /\ last.fx = <<>>

\* C3 (witness): an import was called without a session and was refused
\* before it did anything.
C3_Witness ==
    /\ last.op = "import"
    /\ ~last.had_session
    /\ ~last.res.ok
    /\ last.res.err = to_string(Unauthorized)
    /\ last.fx = <<>>

\* C10: an import that succeeds did not copy onto a path that held an entry
\* when it copied, and two imports that both succeed report two different
\* files.
C10_CollisionFreeImport ==
    /\ \A t \in DOMAIN imp :
        (imp[t].pc = "done" /\ imp[t].res.ok) => ~imp[t].overwrote
    /\ \A t1, t2 \in DOMAIN imp :
        (/\ t1 # t2
         /\ imp[t1].pc = "done" /\ imp[t1].res.ok
         /\ imp[t2].pc = "done" /\ imp[t2].res.ok)
            => imp[t1].res.val # imp[t2].res.val

(***************************************************************************)
(* Claims about the file tree (checked under SpecTree)                     *)
(***************************************************************************)
TreeRoot == ProjectRoot(platform)

\* The entries of a built list at every level
RECURSIVE AllEntries(_)
AllEntries(seq) ==
    UNION {{seq[i]} \cup (IF seq[i].children.ok THEN AllEntries(seq[i].children.val)
                          ELSE {})
           : i \in DOMAIN seq}

\* Every list of a built result with the directory it lists and the depth
\* of the call that built it
RECURSIVE Levels(_, _, _)
Levels(seq, dir, depth) ==
    {[seq |-> seq, dir |-> dir, depth |-> depth]}
        \cup UNION {Levels(seq[i].children.val, join(TreeRoot, seq[i].path), depth + 1)
                    : i \in {j \in DOMAIN seq : seq[j].children.ok}}

BuiltLevels == Levels(last.res.val, last.dir, last.depth)

Shown(dir) == {n \in read_dir(fs, dir) : n[1] # "."}

\* C14: a build started at depth 0 reads no directory deeper than
\* MAX_TREE_DEPTH levels below its start, whatever the nesting and whatever
\* links the tree holds, and ends with a list; a build called at a depth
\* beyond MAX_TREE_DEPTH reads nothing and returns the empty list, not an
\* error.
C14_DepthBound ==
    last.op = "build" =>
        /\ last.res.ok
        /\ \A r \in last.reads :
            /\ r.depth <= MAX_TREE_DEPTH
            /\ Len(r.at) = Len(fs_key(last.dir)) + (r.depth - last.depth)
        /\ last.depth > MAX_TREE_DEPTH => last.res = Ok(<<>>) /\ last.reads = {}

C14_Witness ==
    /\ last.op = "build"
    /\ last.depth = 0
    /\ \E r \in last.reads : r.depth = MAX_TREE_DEPTH
    /\ \E k \in fs.dirs : Len(k) = Len(fs_key(TreeRoot)) + MaxNest
    /\ \E k \in DOMAIN fs.links : fs.links[k] = k

\* C15: no entry whose name starts with a dot is listed at any level and
\* no directory under such a name is read; a root that holds only dot
\* entries gives the empty list, and so does a directory that does not
\* exist, without an error.
C15_DotfileExclusion ==
    last.op = "build" =>
        /\ last.res.ok
        /\ \A e \in AllEntries(last.res.val) : e.name[1] # "."
        /\ \A r \in last.reads :
            \A i \in (Len(fs_key(TreeRoot)) + 1)..Len(r.at) : r.at[i][1] # "."
        /\ Shown(last.dir) = {} => last.res = Ok(<<>>)
        /\ last.dir = MissingDir(TreeRoot) => last.res = Ok(<<>>) /\ last.reads = {}

C15_Witness ==
    /\ last.op = "build"
    /\ last.depth = 0
    /\ last.dir = TreeRoot
    /\ fs_key(join(TreeRoot, <<".", "g", "/", "a">>)) \in DOMAIN fs.files
    /\ \E e \in AllEntries(last.res.val) : e.path = <<"u", "/", "a">>
    /\ fs_key(join(TreeRoot, <<"u", "/", ".", "g">>)) \in DOMAIN fs.files

\* C16: in every list a build returns, the directories come before the
\* files, within each group the lower-cased names never decrease, and the
\* list is a permutation of the directory's entries whose names do not
\* start with a dot.
C16_Ordering ==
    last.op = "build" =>
        \A l \in BuiltLevels :
            /\ \A i, j \in DOMAIN l.seq :
                i < j =>
                    /\ l.seq[i].is_directory \/ ~l.seq[j].is_directory
                    /\ l.seq[i].is_directory = l.seq[j].is_directory
                        => ~str_less(to_lowercase(l.seq[j].name),
                                     to_lowercase(l.seq[i].name))
            /\ l.depth <= MAX_TREE_DEPTH =>
                /\ {l.seq[i].name : i \in DOMAIN l.seq} = Shown(l.dir)
                /\ Len(l.seq) = Cardinality(Shown(l.dir))

C16_Witness ==
    /\ last.op = "build"
    /\ last.depth = 0
    /\ Len(last.res.val) >= 7
    /\ last.res.val[1].is_directory
    /\ \E i, j \in DOMAIN last.res.val :
        /\ i < j
        /\ last.res.val[i].name = <<"a">>
        /\ last.res.val[j].name = <<"U">>

\* C17: an entry has children exactly when it is a directory whose own
\* build, one level deeper, is not empty, and then the children are that
\* build's list; children are never an empty list.
C17_ChildrenPresence ==
    last.op = "build" =>
        \A l \in BuiltLevels :
            \A i \in DOMAIN l.seq :
                \E nested \in {build_directory_entries(
                                    fs, TreeRoot, join(TreeRoot, l.seq[i].path),
                                    l.depth + 1).res} :
                    /\ l.seq[i].children.ok
                        <=> (l.seq[i].is_directory /\ nested.ok /\ nested.val # <<>>)
                    /\ l.seq[i].children.ok =>
                        /\ l.seq[i].children.val = nested.val
                        /\ l.seq[i].children.val # <<>>

C17_Witness ==
    /\ last.op = "build"
    /\ last.depth = 0
    /\ \E e \in AllEntries(last.res.val) :
        e.name = <<"c">> /\ e.is_directory /\ ~e.children.ok
    /\ \E e \in AllEntries(last.res.val) :
        e.name = <<"u">> /\ e.is_directory /\ e.children.ok
    /\ \E e \in AllEntries(last.res.val) :
        e.path = [i \in 1..(2 * MAX_TREE_DEPTH + 1) |-> IF i % 2 = 1 THEN "d" ELSE "/"]
            /\ ~e.children.ok

(***************************************************************************)
(* Claims about imports (checked under SpecAsset and Spec)                 *)
(***************************************************************************)
\* name-k.ext, or name-k for a name without extension
DotAt(n) ==
    IF \E i \in 1..Len(n) : n[i] = "."
    THEN CHOOSE i \in 1..Len(n) : n[i] = "." /\ \A j \in (i + 1)..Len(n) : n[j] # "."
    ELSE 0

Numbered(n, k) ==
    IF DotAt(n) = 0 THEN n \o <<"-">> \o to_decimal(k)
    ELSE SubSeq(n, 1, DotAt(n) - 1) \o <<"-">> \o to_decimal(k)
            \o SubSeq(n, DotAt(n), Len(n))

HeldIn(f, n) ==
    fs_key(join(join(base, AssetDir), n)) \in (DOMAIN f.files) \cup f.dirs

\* The name the numbering rule gives in file system f: n itself when it is
\* free, else n numbered with the smallest k >= 1 that is free
ExpectedName(f, n) ==
    IF ~HeldIn(f, n) THEN n
    ELSE Numbered(n, Min({k \in 1..(Cardinality(AssetPool) + 1) : ~HeldIn(f, Numbered(n, k))}))

ImportedAs(f, n) ==
    /\ last'.res = Ok(AssetDir \o <<"/">> \o ExpectedName(f, n))
    /\ fs_key(join(join(base, AssetDir), ExpectedName(f, n))) \in DOMAIN fs'.files

\* C11: an import of a source named name.ext (or name) into a directory is
\* copied to that name when it is free there, and else to name-k.ext (or
\* name-k) for the smallest k >= 1 whose name is free.
C11_CollisionNumbering ==
    [][\A s \in {SourceFile, SourceBare} :
        (session.present /\ last'.op = "import" /\ ImportAsset(s)) => ImportedAs(fs, file_name(s).val)]_vars

\* C11 (witness): a directory holding a.p and a-1.p received the import of
\* a.p as a-2.p.
C11_Witness ==
    /\ last.op = "import"
    /\ last.res = Ok(<<"d", "/", "a", "-", "2", ".", "p">>)

\* C12: an import whose source does not exist fails with NotFound and has
\* changed neither the file system (no directory made, no file copied) nor
\* the project's timestamp.
C12_MissingSourceBeforeMutation ==
    [][\A d \in TargetDirs :
        (session.present
         /\ last'.op = "import"
         /\ Returned("import", copy_project_asset(
                [project_id |-> "p1", source |-> SourceMissing, target_dir |-> d])))
        => /\ last'.res = Err(to_string(Message(MsgNoSource)))
           /\ fs' = fs
           /\ projects' = projects]_vars

\* C12 (witness): a logged-in import of a missing source was refused.
C12_Witness ==
    /\ last.op = "import"
    /\ last.had_session
    /\ last.res = Err(to_string(Message(MsgNoSource)))

\* C13: a source whose name sanitizes to the empty string is copied as
\* "asset", or as asset-k for the smallest free k >= 1 when "asset" is held.
C13_EmptyNameBecomesAsset ==
    [][(session.present /\ last'.op = "import" /\ ImportAsset(SourceOddName))
        => ImportedAs(fs, <<"a", "s", "s", "e", "t">>)]_vars

\* C13 (witness): a directory holding "asset" received the import as asset-1.
C13_Witness ==
    /\ last.op = "import"
    /\ last.res = Ok(<<"d", "/", "a", "s", "s", "e", "t", "-", "1">>)

(***************************************************************************)
(* Claims about returned paths (checked under SpecReturned)                *)
(***************************************************************************)
\* A path as its segments, without the empty ones and the dots
PathSegments(s) == SelectSeq(Segments(s), LAMBDA x : x \notin {<<>>, <<".">>})

\* The entry an effect of the last call was aimed at
AimOf(e) == The({last.fx[i].at : i \in {j \in DOMAIN last.fx : last.fx[j].e = e}})

\* Relative to the project root, with / for a separator
RelativeForm(r) ==
    /\ ~is_absolute(r)
    /\ r # <<>> => r[1] # "/"
    /\ \A i \in DOMAIN r : r[i] # "\\"

\* The path, taken from the project root, leads to the entry
LeadsTo(r, k) == fs_key(join(ProjectRoot(platform), r)) = k

\* C18: every path handed back (a tree entry's path, the path returned by
\* save, the relative_path returned by import) is relative to the project
\* root, written with / separators and not absolute, and from the root it
\* leads to the entry it was returned for; for an import it is the
\* normalized target directory followed by the chosen file name.
C18_ReturnedPathsRelative ==
    /\ (last.op = "list" /\ last.res.ok) =>
        \A e \in AllEntries(last.res.val) :
            /\ RelativeForm(e.path)
            /\ \E k \in (DOMAIN fs.files) \cup fs.dirs :
                LeadsTo(e.path, k) /\ k[Len(k)] = e.name
    /\ (last.op = "save" /\ last.res.ok) =>
        /\ RelativeForm(last.res.val)
        /\ LeadsTo(last.res.val, AimOf("write"))
    /\ (last.op = "import" /\ last.res.ok) =>
        /\ RelativeForm(last.res.val)
        /\ LeadsTo(last.res.val, AimOf("copy_to"))
        /\ \E chosen \in {AimOf("copy_to")} :
            PathSegments(last.res.val)
                = PathSegments(NormalForm(IF last.arg.ok THEN last.arg.val
                                          ELSE DefaultTargetDir))
                    \o <<chosen[Len(chosen)]>>

(***************************************************************************)
(* Claims about worker root discovery (checked under SpecLocate)           *)
(***************************************************************************)
\* The candidates that qualify, in the order of the search: the override,
\* then the ml directories of the working directory and of its ancestors,
\* SearchLevels directories at most
Qualifying(ml) ==
    SelectSeq((IF ml.override THEN <<EnvCandidate>> ELSE <<>>)
                \o [i \in 1..SearchLevels |-> CwdCandidate(i - 1)],
              LAMBDA c : c \in ml.pkg /\ c.up <= ml.cwdDepth)

\* C19: discovery returns the first qualifying candidate in canonical form,
\* the override before any ml directory near the working directory; when
\* none qualifies it fails with the message that names SCRIPTWRITER_ML_ROOT,
\* and a worker call that needs the root spawns nothing.
C19_DiscoveryOrder ==
    /\ bCall.op = "locate_ml_root" =>
        bCall.res = IF Qualifying(bEnv.ml) = <<>> THEN Err(Message(MsgNoToolkit))
                    ELSE Ok(canonicalize(Qualifying(bEnv.ml)[1]))
    /\ (bCall.op = "model_inventory" /\ Qualifying(bEnv.ml) = <<>>) =>
        /\ ~bCall.res.ok
        /\ \A i \in DOMAIN bCall.fx : bCall.fx[i] # "spawn"

(***************************************************************************)
(* Claims about scene generation (checked under SpecScene)                 *)
(***************************************************************************)
\* C20: the program text handed to the interpreter does not depend on the
\* prompt, the context or the API key: whatever the request, it is the text
\* any other request would have been started with.
C20_ProgramTextFixed ==
    (bCall.op = "generate_scene" /\ bCall.command.ok) =>
        \A prompt \in ScenePrompts, context \in SceneContexts, api_key \in SceneKeys :
            bCall.command.val[3] = python_script(prompt, context, api_key)

(***************************************************************************)
(* Claims about the stdin-fed exchange (checked under SpecPipe)            *)
(***************************************************************************)
\* The bridge cannot go on writing: the input pipe is full
BridgeBlockedWriting == xch.pc = "write_all" /\ xch.left > 0 /\ xch.stdin = PipeCap

\* The worker cannot go on writing: the output pipe is full
WorkerBlockedWriting ==
    /\ ~xch.exited
    /\ xch.early > 0 \/ (xch.at_eof /\ xch.late > 0)
    /\ xch.stdout = PipeCap

\* C21: the bridge is never blocked writing input while the worker is
\* blocked writing output, and every exchange with a worker that reads its
\* input to the end and exits returns in the end.
C21_DeadlockFree ==
    /\ [](~(BridgeBlockedWriting /\ WorkerBlockedWriting))
    /\ <>(xch.pc = "returned")

(***************************************************************************)
(* Claims about the runtime (checked under SpecRuntime)                    *)
(***************************************************************************)
\* C22: no blocking call (a file system call of list, load, save or
\* import, a worker's spawn and wait) runs on a worker thread of the async
\* runtime, so a request that is ready to run always finds a worker thread
\* that is not held by another request's blocking call.
C22_BlockingOffRuntime ==
    /\ \A i \in DOMAIN rt : rt[i].where # "async_thread"
    /\ (\E i \in DOMAIN rt : rt[i].where = "ready")
        => Cardinality(OnAsyncThread) < AsyncThreads

(***************************************************************************)
(* Claims about a worker call from spawn to return (checked under          *)
(* SpecBridge)                                                             *)
(***************************************************************************)
\* C23: a call that spawned a worker process has waited for its exit when
\* it returns, also when writing the request to the worker's input failed,
\* and it has spawned one process only.
C23_SingleShotWaits ==
    (bCall.op # "idle" /\ Has(bCall.fx, "spawn"))
        => /\ Has(bCall.fx, "wait")
           /\ Cardinality({i \in DOMAIN bCall.fx : bCall.fx[i] = "spawn"}) = 1

(***************************************************************************)
(* Further claims about the path sandbox (checked under SpecPath)          *)
(***************************************************************************)
\* C24: resolve never succeeds with the root itself, and a path that is
\* empty once trimmed and stripped of its leading separators is refused
\* with InvalidPath, like an empty path.
C24_StrictlyInsideRoot ==
    /\ (pstep # "input" /\ resolved.ok) => fs_key(resolved.val) # fs_key(base)
    /\ (pstep # "input" /\ trim_start_matches(trim(relative)) = <<>>)
        => (~resolved.ok /\ resolved.err \in InvalidPath)

(***************************************************************************)
(* Claims about project roots (checked under SpecProjects)                 *)
(***************************************************************************)
ProjectsKey == fs_key(join(StorageRoot(platform), ProjectsDir))

StartsWith(k, q) == Len(q) <= Len(k) /\ SubSeq(k, 1, Len(q)) = q

\* C25: every project's root is the directory projects/<slug> of the
\* storage directory, with a slug that is not empty and made of a-z, 0-9
\* and '-' only, and no project's root is, or lies inside, another
\* project's root.
C25_DisjointRoots ==
    /\ \A p \in DOMAIN projects :
        /\ projects[p].slug # <<>>
        /\ \A i \in DOMAIN projects[p].slug :
            projects[p].slug[i] \in SlugLetters \cup SlugDigits \cup {"-"}
        /\ fs_key(projects[p].base_path) = ProjectsKey \o <<projects[p].slug>>
    /\ \A p, q \in DOMAIN projects :
        p # q => ~StartsWith(fs_key(projects[p].base_path),
                             fs_key(projects[q].base_path))

(***************************************************************************)
(* Claims about the session (checked under Spec)                           *)
(***************************************************************************)
AccountOps == {"register_user", "login_user"}

\* C26: the session is absent before any command; a successful register
\* or login makes it that user's profile; a failed one leaves it as it was;
\* logout leaves it absent; no other command changes it; and a core
\* operation started while it is absent fails with Unauthorized.
C26_SessionTransitions ==
    /\ [](last.op = "none" => session = NoSession)
    /\ [][/\ (last'.op \in AccountOps /\ last'.res.ok)
                => session' = SomeUser(last'.res.val)
          /\ (last'.op \in AccountOps /\ ~last'.res.ok) => session' = session
          /\ last'.op = "logout_user" => session' = NoSession
          /\ last'.op \notin AccountOps \cup {"logout_user"} => session' = session
          /\ (last'.op \in CoreOps /\ ~session.present)
                => last'.res = Err(to_string(Unauthorized))]_vars

C26_Witness ==
    /\ last.op = "login_user"
    /\ ~last.res.ok
    /\ last.had_session
    /\ session = SomeUser(into_profile(<<"v">>))

(***************************************************************************)
(* Claims about saving and loading (checked under SpecNotes)               *)
(***************************************************************************)
\* The file a path of the project stands for
NoteKey(p) == fs_key(resolve_project_path(ProjectRoot(platform), p).val)

\* C27: a successful save leaves the content at the resolved path, has
\* made the missing parent directories, changes no other file, and a load
\* of the same path then returns that content; a save that fails changes
\* no file other than the one at the resolved path; a load of a path that
\* resolves to nothing returns empty content without error; no load
\* changes the file system or the project's timestamp.
C27_SaveLoadRoundTrip ==
    /\ [](last.op = "save" /\ last.res.ok =>
            load_markdown_file([project_id |-> "p1",
                                file_path |-> last.path]).res = Ok(last.content))
    /\ [][/\ (last'.op = "save" /\ last'.res.ok) =>
                \E k \in {NoteKey(last'.path)} :
                    /\ k \in DOMAIN fs'.files
                    /\ fs'.files[k] = last'.content
                    /\ DOMAIN fs'.files = DOMAIN fs.files \cup {k}
                    /\ \A q \in DOMAIN fs.files \ {k} : fs'.files[q] = fs.files[q]
                    /\ fs'.dirs = fs.dirs \cup Prefixes(SubSeq(k, 1, Len(k) - 1))
          /\ (last'.op = "save" /\ fs' # fs) =>
                \E k \in {NoteKey(last'.path)} :
                    /\ DOMAIN fs'.files \subseteq DOMAIN fs.files \cup {k}
                    /\ \A q \in DOMAIN fs.files \ {k} :
                          q \in DOMAIN fs'.files /\ fs'.files[q] = fs.files[q]
          /\ (last'.op = "load" /\ session.present
                /\ resolve_project_path(ProjectRoot(platform), last'.path).ok
                /\ ~exists(fs, resolve_project_path(ProjectRoot(platform), last'.path).val))
                => last'.res = Ok(<<>>)
          /\ last'.op = "load" => (fs' = fs /\ projects' = projects)]_vars

C27_Witness ==
    /\ last.op = "load"
    /\ last.path = <<"e", "/", "a">>
    /\ NoteKey(last.path) \in DOMAIN fs.files
    /\ last.res.ok
    /\ last.res.val = "x"
    /\ NoteKey(<<"a">>) \in DOMAIN fs.files
    /\ fs.files[NoteKey(<<"a">>)] = "y"

=============================================================================
